---- MODULE Spec2Model ----
(***************************************************************************)
(* Seer Engine: the per-event analysis pipeline                            *)
(*   Receiving -> Filtering -> Analyzing -> Deciding -> Executing ->       *)
(*   Complete                                                              *)
(* together with the oracle adapter (backend/services/openai_service.py)    *)
(* and the venue adapter (backend/services/opinion_service.py).             *)
(*                                                                         *)
(* The adapters are translated from their source.  The pipeline driver     *)
(* (services/analyzer_service.py, imported by backend/main.py) is not part  *)
(* of the source tree at hand; its steps follow section 4.1 of the          *)
(* specification and are marked as such.                                    *)
(*                                                                         *)
(* Numbers with a fraction (prices, scores, confidences) are kept in        *)
(* hundredths: 0.5 is 50, 0.01 is 1, 1.0 is 100.                            *)
(***************************************************************************)
EXTENDS Integers, Sequences, FiniteSets, TLC

VARIABLES
    pc,            \* position of the pipeline execution for the event
    session,       \* the AnalysisSession record (NoSession before Receiving)
    filterCall,    \* the FilterMarkets call: what the remote request did
    tasks,         \* Analyzing fan-out: one slot per relevant market id
    selectCall,    \* the SelectBestMarket call and what it returned
    orderCall,     \* the PlaceOrder call and what the venue client saw
    requests,      \* remote requests issued so far, per operation
    outOfOrder,    \* some analysis call returned before one of an earlier id
    delivered,     \* status of the session snapshot last sent to an observer
    adapterCall,   \* the last adapter operation called on its own, with its result
    marketsSent,   \* the catalog reads of connect, in order: what each sent
    listeners,     \* the open listen loops of the event source, one per connect
    produced,      \* how many events the upstream has pushed
    store,         \* the Session Store across events: one summary per session
    clock,         \* the time, as read for startTime
    lastQuery,     \* the last history query and its result
    twitter,       \* the event-source client (TwitterService) and its listen loop
    demo           \* demo mode: the observers and the generator tasks

\* the catalog reads and the store across events
storeSide == <<marketsSent, listeners, produced, store, clock, lastQuery>>

\* the event source
sourceSide == <<twitter, demo>>

vars == <<pc, session, filterCall, tasks, selectCall, orderCall, requests, outOfOrder,
          delivered, adapterCall, storeSide, sourceSide>>

----------------------------------------------------------------------------
\* Bounds of the model

\* longest relevant_market_ids list the filter oracle answers with
MaxRelevant == 2

----------------------------------------------------------------------------
\* Program constants

\* "We will ONLY trade on the SINGLE most impacted market with a FIXED $5 amount"
FixedTradeSize == 5

\* TradeDecision.suggestedPrice: Field(ge=0.01, le=0.99), in hundredths
PriceMin == 1
PriceMax == 99

\* _get_default_analysis: suggestedPrice=0.5, in hundredths
DefaultPrice == 50

----------------------------------------------------------------------------
\* The market catalog as get_markets returns it: every market is activated
\* and carries both trade tokens.  The venue's market ids are numeric.

MarketIds == {"101", "102", "103"}

\* an id the oracle may name although no catalog market has it
UnknownId == "999"

NoToken == "none"
NoSide == "null"

Market(mid) ==
    [id |-> mid, yesLabel |-> "YES", noLabel |-> "NO",
     yesTokenId |-> "tokY" , noTokenId |-> "tokN"]

----------------------------------------------------------------------------
\* What a remote request can do.  "raise" is any exception of the client
\* (transport error, timeout, rate limit); "empty" is a response without
\* content; "garbage" is content json.loads rejects; "json" is content that
\* parses, with the fields in body.

FailKinds == {"raise", "empty", "garbage"}

NoBody == [none |-> TRUE]

Failure(k) == [kind |-> k, body |-> NoBody]

Json(b) == [kind |-> "json", body |-> b]

RECURSIVE SeqsUpTo(_, _)
SeqsUpTo(S, n) ==
    IF n = 0 THEN {<<>>}
    ELSE LET shorter == SeqsUpTo(S, n - 1)
         IN  shorter \cup {Append(q, x) : q \in {r \in shorter : Len(r) = n - 1}, x \in S}

----------------------------------------------------------------------------
\* Oracle adapter, Stage A: OpenAIService.filter_relevant_markets

\* an adapter call either returns a value or lets an exception escape
Returned(v) == [raised |-> FALSE, value |-> v]

\* mutant: a request that failed is sent once more before the default
oracle_retries_once(failed) == IF failed THEN 1 ELSE 0

\* Each oracle operation awaits self.client.chat.completions.create once,
\* inside its try; its except branch returns the default and asks nothing.
\* The further requests an operation sends after the first: none.
oracle_retries(failed) == 0

Raised == [raised |-> TRUE, value |-> NoBody]

FilterFields == {"is_relevant", "relevant_market_ids", "reasoning_summary"}

\* GPTMarketFilterResponse(**parsed): every field is required
ValidFilterBody(b) == FilterFields \subseteq b.fields

FilterResult(rel, ids, why) ==
    [is_relevant |-> rel, relevant_market_ids |-> ids, reasoning_summary |-> why]

\* the bodies the filter oracle may answer with: any flag with any id list
\* (the two are read independently), two summaries (free text, so the
\* oracle may also write the adapter's own failure text), and one body that
\* lacks a required field
OracleSummaries == {"markets affected", "Analysis failed"}

FilterBodies ==
    {[fields |-> FilterFields, is_relevant |-> rel,
      relevant_market_ids |-> ids, reasoning_summary |-> why] :
        rel \in BOOLEAN, ids \in SeqsUpTo(MarketIds, MaxRelevant),
        why \in OracleSummaries}
    \cup {[fields |-> {"is_relevant", "relevant_market_ids"}, is_relevant |-> TRUE,
           relevant_market_ids |-> <<"101">>, reasoning_summary |-> ""]}

FilterResponses == {Failure(k) : k \in FailKinds} \cup {Json(b) : b \in FilterBodies}

\* mutant: the except branch re-raises instead of answering the default
filter_relevant_markets_reraise(resp) ==
    CASE resp.kind = "empty" ->
            Returned(FilterResult(FALSE, <<>>, "No response from LLM"))
      [] resp.kind = "json" /\ ValidFilterBody(resp.body) ->
            Returned(FilterResult(resp.body.is_relevant,
                                  resp.body.relevant_market_ids,
                                  resp.body.reasoning_summary))
      [] OTHER -> Raised

\* mutant: the flag is recomputed from the id list instead of being kept
filter_relevant_markets_flag_from_ids(resp) ==
    CASE resp.kind = "empty" ->
            Returned(FilterResult(FALSE, <<>>, "No response from LLM"))
      [] resp.kind = "json" /\ ValidFilterBody(resp.body) ->
            Returned(FilterResult(resp.body.relevant_market_ids # <<>>,
                                  resp.body.relevant_market_ids,
                                  resp.body.reasoning_summary))
      [] OTHER ->
            Returned(FilterResult(FALSE, <<>>, "Analysis failed"))

filter_relevant_markets(resp) ==
    CASE resp.kind = "empty" ->
            \* if not content: return the "No response" default
            Returned(FilterResult(FALSE, <<>>, "No response from LLM"))
      [] resp.kind = "json" /\ ValidFilterBody(resp.body) ->
            \* result = GPTMarketFilterResponse(**parsed); return result
            Returned(FilterResult(resp.body.is_relevant,
                                  resp.body.relevant_market_ids,
                                  resp.body.reasoning_summary))
      [] OTHER ->
            \* except Exception: the request raised, json.loads raised or
            \* the schema rejected the body
            Returned(FilterResult(FALSE, <<>>, "Analysis failed"))

\* what the remote request did, as opposed to what the adapter returned
FilterRequestFailed(resp) == resp.kind # "json" \/ ~ValidFilterBody(resp.body)

----------------------------------------------------------------------------
\* Oracle adapter, Stage B: OpenAIService.analyze_market_impact

Actions == {"BUY", "SELL", "HOLD"}

Sentiments == {"POSITIVE", "NEGATIVE", "NEUTRAL"}

TradeDecision(act, side, price, size) ==
    [action |-> act, side |-> side, suggestedPrice |-> price, sizeUsdc |-> size]

\* TradeDecision's field constraints
ValidTradeDecision(d) ==
    /\ d.action \in Actions
    /\ d.suggestedPrice >= PriceMin
    /\ d.suggestedPrice <= PriceMax

AnalysisResponse(mid, sent, impact, conf, decision) ==
    [market_id |-> mid, sentiment |-> sent, impact_score |-> impact,
     confidence |-> conf, trade_decision |-> decision]

\* GPTMarketAnalysisResponse's field constraints
ValidAnalysisBody(b) ==
    /\ b.sentiment \in Sentiments
    /\ b.impact_score >= 0 /\ b.impact_score <= 100
    /\ b.confidence >= 0 /\ b.confidence <= 100
    /\ ValidTradeDecision(b.trade_decision)

\* the bodies the analysis oracle may answer with for market mid
AnalysisBodies(mid) ==
    { AnalysisResponse(mid, "POSITIVE", 70, 80, TradeDecision("BUY", "YES", 60, 5)),
      AnalysisResponse(mid, "NEGATIVE", 60, 60, TradeDecision("SELL", "NO", 30, 50)),
      AnalysisResponse(mid, "NEUTRAL", 10, 30, TradeDecision("HOLD", NoSide, 50, 5)),
      AnalysisResponse(mid, "POSITIVE", 90, 90, TradeDecision("BUY", "YES", 100, 5)),
      AnalysisResponse(mid, "NEGATIVE", 90, 90, TradeDecision("SELL", "NO", 0, 5)) }

AnalysisResponses(mid) ==
    {Failure(k) : k \in FailKinds} \cup {Json(b) : b \in AnalysisBodies(mid)}

\* mutant: the safe default proposes a trade
get_default_analysis_buy(market_id) ==
    AnalysisResponse(market_id, "NEUTRAL", 0, 0,
                     TradeDecision("BUY", "YES", DefaultPrice, FixedTradeSize))

get_default_analysis(market_id) ==
    AnalysisResponse(market_id, "NEUTRAL", 0, 0,
                     TradeDecision("HOLD", NoSide, DefaultPrice, 0))

\* mutant: the except branch re-raises instead of answering the default
analyze_market_impact_reraise(market, resp) ==
    CASE resp.kind = "empty" -> Returned(get_default_analysis(market.id))
      [] resp.kind = "json" /\ ValidAnalysisBody(resp.body) -> Returned(resp.body)
      [] OTHER -> Raised

analyze_market_impact(market, resp) ==
    CASE resp.kind = "empty" ->
            \* if not content: return self._get_default_analysis(market.id)
            Returned(get_default_analysis(market.id))
      [] resp.kind = "json" /\ ValidAnalysisBody(resp.body) ->
            \* result = GPTMarketAnalysisResponse(**parsed); return result
            Returned(resp.body)
      [] OTHER ->
            \* except Exception: return self._get_default_analysis(market.id)
            Returned(get_default_analysis(market.id))

AnalysisRequestFailed(resp) == resp.kind # "json" \/ ~ValidAnalysisBody(resp.body)

----------------------------------------------------------------------------
\* MarketImpact (models/types.py) and the actionable impacts

MarketImpact(mid, a) ==
    [marketId |-> mid, sentiment |-> a.sentiment, impactScore |-> a.impact_score,
     confidence |-> a.confidence, tradeDecision |-> a.trade_decision]

\* mutant: a HOLD decision counts as a candidate too
IsActionable_hold(impact) == impact.tradeDecision.action \in {"BUY", "SELL", "HOLD"}

IsActionable(impact) == impact.tradeDecision.action \in {"BUY", "SELL"}

RECURSIVE Actionable(_)
Actionable(impacts) ==
    IF impacts = <<>> THEN <<>>
    ELSE IF IsActionable(Head(impacts))
         THEN <<Head(impacts)>> \o Actionable(Tail(impacts))
         ELSE Actionable(Tail(impacts))

MarketIdsOf(impacts) == {impacts[i].marketId : i \in 1..Len(impacts)}

----------------------------------------------------------------------------
\* Oracle adapter, Stage C: OpenAIService.select_best_market

Selection(mid, conf) ==
    [none |-> FALSE, selected_market_id |-> mid, confidence_in_selection |-> conf]

\* the adapter's "return None"
NoSelection == [none |-> TRUE, selected_market_id |-> "", confidence_in_selection |-> 0]

\* GPTMarketSelectionResponse: confidence_in_selection is Field(ge=0, le=1)
ValidSelectionBody(b) ==
    b.confidence_in_selection >= 0 /\ b.confidence_in_selection <= 100

\* the bodies the selection oracle may answer with: a catalog id or an id
\* no market has, and one body the schema rejects
SelectionBodies ==
    {Selection(mid, 90) : mid \in MarketIds \cup {UnknownId}}
    \cup {Selection("101", 150)}

SelectionResponses ==
    {Failure(k) : k \in FailKinds} \cup {Json(b) : b \in SelectionBodies}

\* mutant: the single-candidate short cut is gone, one candidate goes to the oracle too
select_needs_request_always(impacts) == Len(impacts) >= 1

\* select_best_market asks the oracle only past its two early returns
select_needs_request(impacts) == Len(impacts) >= 2

\* mutant: a failed selection falls back to the first candidate
select_best_market_fallback_first(impacts, resp) ==
    IF impacts = <<>> THEN Returned(NoSelection)
    ELSE IF ~select_needs_request(impacts)
    THEN Returned(Selection(impacts[1].marketId, 100))
    ELSE IF resp.kind = "json" /\ ValidSelectionBody(resp.body)
    THEN Returned(resp.body)
    ELSE Returned(Selection(impacts[1].marketId, 0))

select_best_market(impacts, resp) ==
    IF impacts = <<>>
    THEN \* if not impacts: return None
         Returned(NoSelection)
    ELSE IF ~select_needs_request(impacts)
    THEN \* if len(impacts) == 1: the sole candidate, confidence_in_selection=1.0
         Returned(Selection(impacts[1].marketId, 100))
    ELSE CASE resp.kind = "empty" ->
                 \* Empty selection response: return None
                 Returned(NoSelection)
           [] resp.kind = "json" /\ ValidSelectionBody(resp.body) ->
                 \* result = GPTMarketSelectionResponse(**parsed); return result
                 Returned(resp.body)
           [] OTHER ->
                 \* except Exception: return None
                 Returned(NoSelection)

----------------------------------------------------------------------------
\* Venue adapter: OpinionService.place_order

\* what self.client.place_order can do: raise an exception whose text
\* str(e) is a message or, for an exception built without arguments, empty;
\* or answer with errno 0, with another errno, or with no errno attribute
VenueResponses ==
    { [kind |-> "raise", hasErrno |-> FALSE, errno |-> 0, message |-> "timed out"],
      [kind |-> "raise", hasErrno |-> FALSE, errno |-> 0, message |-> ""],
      [kind |-> "response", hasErrno |-> TRUE, errno |-> 0, message |-> ""],
      [kind |-> "response", hasErrno |-> TRUE, errno |-> 10004, message |-> ""],
      [kind |-> "response", hasErrno |-> FALSE, errno |-> 0, message |-> ""] }

TradeExecution(mid, side, amount, price, status, error) ==
    [marketId |-> mid, side |-> side, amount |-> amount, price |-> price,
     status |-> status, error |-> error]

\* mutant: a response without errno counts as success
Errno_zero(venue) == IF venue.hasErrno THEN venue.errno ELSE 0

\* errno = getattr(response, 'errno', -1)
Errno(venue) == IF venue.hasErrno THEN venue.errno ELSE -1

\* mutant: a failed submission is sent a second time
place_order_submissions_retry(token_id, venue) ==
    IF token_id = NoToken THEN 0
    ELSE IF venue.kind = "raise" \/ Errno(venue) # 0 THEN 2 ELSE 1

\* how many orders one place_order call hands to the venue client: none
\* when the token is missing, else the one self.client.place_order(order_input)
place_order_submissions(token_id, venue) ==
    IF token_id = NoToken THEN 0 ELSE 1

\* mutant: the recorded amount and price change places
place_order_swapped(market_id, side, amount, price, token_id, venue) ==
    IF token_id = NoToken
    THEN TradeExecution(market_id, side, price, amount, "failed", "Missing token_id")
    ELSE IF venue.kind = "raise"
    THEN TradeExecution(market_id, side, price, amount, "failed", venue.message)
    ELSE IF Errno(venue) = 0
    THEN TradeExecution(market_id, side, price, amount, "confirmed", "")
    ELSE TradeExecution(market_id, side, price, amount, "failed", "SDK Error")

\* mutant: the token is not validated, the order goes to the venue client
place_order_unchecked(market_id, side, amount, price, token_id, venue) ==
    IF venue.kind = "raise"
    THEN TradeExecution(market_id, side, amount, price, "failed", venue.message)
    ELSE IF Errno(venue) = 0
    THEN TradeExecution(market_id, side, amount, price, "confirmed", "")
    ELSE TradeExecution(market_id, side, amount, price, "failed", "SDK Error")

place_order(market_id, side, amount, price, token_id, venue) ==
    IF token_id = NoToken
    THEN TradeExecution(market_id, side, amount, price, "failed", "Missing token_id")
    ELSE IF venue.kind = "raise"
    THEN \* except Exception as e: status="failed", error=str(e)
         TradeExecution(market_id, side, amount, price, "failed", venue.message)
    ELSE IF Errno(venue) = 0
    THEN TradeExecution(market_id, side, amount, price, "confirmed", "")
    ELSE \* error=f"SDK Error {errno}: {error_msg}"
         TradeExecution(market_id, side, amount, price, "failed", "SDK Error")

----------------------------------------------------------------------------
\* Venue adapter: OpinionService.get_markets and get_balance

MaxRawMarkets == 2
MaxBalances == 2

\* what the venue lists: objects that convert to a dict, with a status, the
\* two token ids (either may be blank) and a volume that float() takes or
\* rejects; and one object that is neither a dict nor convertible.  Which
\* market is listed matters only across catalog reads (CatalogFetches).
RawMarkets ==
    {[kind |-> "dict", statusEnum |-> st, yesTokenId |-> y, noTokenId |-> n,
      marketId |-> m, volumeOk |-> v] :
        st \in {"Activated", "Created", "Resolved"}, y \in {"tokY", ""},
        n \in {"tokN", ""}, m \in {"101"}, v \in BOOLEAN}
    \cup {[kind |-> "other", statusEnum |-> "", yesTokenId |-> "", noTokenId |-> "",
           marketId |-> "", volumeOk |-> FALSE]}

\* self.client.get_markets raises, answers without a result list, or lists
MarketsResponses ==
    {[kind |-> "raise", list |-> <<>>], [kind |-> "noresult", list |-> <<>>]}
    \cup {[kind |-> "list", list |-> l] : l \in SeqsUpTo(RawMarkets, MaxRawMarkets)}

\* 'activated' in status and both token ids present
is_activated(raw) ==
    /\ raw.kind = "dict"
    /\ raw.statusEnum = "Activated"
    /\ raw.yesTokenId # "" /\ raw.noTokenId # ""

NoMarket == [id |-> "", yesLabel |-> "", noLabel |-> "",
             yesTokenId |-> NoToken, noTokenId |-> NoToken]

\* None for a closed or unreadable market, else the Market record
normalize_market(raw) ==
    IF raw.kind # "dict" THEN NoMarket
    ELSE IF raw.statusEnum \notin {"Created", "Activated"} THEN NoMarket
    ELSE IF ~raw.volumeOk THEN NoMarket
    ELSE [id |-> raw.marketId, yesLabel |-> "YES", noLabel |-> "NO",
          yesTokenId |-> IF raw.yesTokenId # "" THEN raw.yesTokenId ELSE NoToken,
          noTokenId |-> IF raw.noTokenId # "" THEN raw.noTokenId ELSE NoToken]

\* mutant: every market that normalizes is kept, created ones included
Tradeable_normalized(raw) == normalize_market(raw) # NoMarket

Tradeable(raw) ==
    /\ is_activated(raw)
    /\ LET market == normalize_market(raw)
       IN  market # NoMarket /\ market.yesTokenId # NoToken /\ market.noTokenId # NoToken

RECURSIVE TradeableMarkets(_)
TradeableMarkets(raws) ==
    IF raws = <<>> THEN <<>>
    ELSE IF Tradeable(Head(raws))
    THEN <<normalize_market(Head(raws))>> \o TradeableMarkets(Tail(raws))
    ELSE TradeableMarkets(Tail(raws))

\* mutant: the except branch re-raises instead of answering the empty list
get_markets_reraise(resp) ==
    IF resp.kind = "raise" THEN Raised
    ELSE IF resp.kind = "noresult" THEN Returned(<<>>)
    ELSE Returned(TradeableMarkets(resp.list))

get_markets(resp) ==
    IF resp.kind = "raise"
    THEN \* except Exception: return []
         Returned(<<>>)
    ELSE IF resp.kind = "noresult" THEN Returned(<<>>)
    ELSE Returned(TradeableMarkets(resp.list))

Balance(available, symbol) == [available |-> available, symbol |-> symbol]

\* one entry of the balances list; numeric is whether float() takes its amounts
BalanceEntries ==
    {[quote_token |-> t, available |-> a, numeric |-> TRUE] :
        t \in {"usdt", "other"}, a \in {0, 7}}
    \cup {[quote_token |-> "other", available |-> 0, numeric |-> FALSE]}

\* self.client.get_my_balances raises, answers an error code, answers
\* without a result, or answers a list of balances
BalanceResponses ==
    {[kind |-> "raise", errno |-> 0, hasResult |-> FALSE, balances |-> <<>>],
     [kind |-> "response", errno |-> 10004, hasResult |-> FALSE, balances |-> <<>>],
     [kind |-> "response", errno |-> 0, hasResult |-> FALSE, balances |-> <<>>]}
    \cup {[kind |-> "response", errno |-> 0, hasResult |-> TRUE, balances |-> b] :
            b \in SeqsUpTo(BalanceEntries, MaxBalances)}

\* the for loop over balances: the USDT entry wins and ends the loop, else
\* the first positive balance is kept; float() of a non-number raises
RECURSIVE ScanBalances(_, _)
ScanBalances(bals, acc) ==
    IF bals = <<>> THEN Returned(acc)
    ELSE LET bal == Head(bals)
         IN  IF ~bal.numeric THEN Raised
             ELSE IF bal.quote_token = "usdt" THEN Returned(Balance(bal.available, "USDT"))
             ELSE IF bal.available > 0 /\ acc.available = 0
             THEN ScanBalances(Tail(bals), Balance(bal.available, acc.symbol))
             ELSE ScanBalances(Tail(bals), acc)

get_balance(resp) ==
    IF resp.kind = "raise" THEN Returned(Balance(0, "UNKNOWN"))
    ELSE IF resp.errno # 0 THEN Returned(Balance(0, "USDC"))
    ELSE IF ~resp.hasResult THEN Returned(Balance(0, "USDC"))
    ELSE LET scanned == ScanBalances(resp.balances, Balance(0, "USDC"))
         IN  IF scanned.raised
             THEN \* except Exception: the UNKNOWN balance
                  Returned(Balance(0, "UNKNOWN"))
             ELSE scanned

----------------------------------------------------------------------------
\* The session record (AnalysisSession, AnalysisStep of models/types.py)

Step(type, status) == [type |-> type, status |-> status]

\* mutant: the new status is recorded as one more step of the stage
SetLastStatus_append(steps, status) ==
    Append(steps, Step(steps[Len(steps)].type, status))

\* mutant: the status is written to the first step of the session
SetLastStatus_first(steps, status) ==
    [steps EXCEPT ![1] = Step(steps[1].type, status)]

\* the last step of a session changes its status
SetLastStatus(steps, status) ==
    [steps EXCEPT ![Len(steps)] = Step(steps[Len(steps)].type, status)]

NoSession ==
    [status |-> "none", steps |-> <<>>, filterResult |-> NoBody,
     marketImpacts |-> <<>>, trades |-> <<>>, endTime |-> FALSE]

NewSession ==
    [status |-> "active", steps |-> <<Step("receiving", "complete")>>,
     filterResult |-> NoBody, marketImpacts |-> <<>>, trades |-> <<>>,
     endTime |-> FALSE]

IdleCall == [state |-> "idle", failed |-> FALSE, saidRelevant |-> FALSE]

----------------------------------------------------------------------------
\* The pipeline (section 4.1).  An exception that escapes an adapter ends
\* process_tweet where it stands: on_tweet_received catches and logs it.

\* 4.1 step 2: the filtering step is marked error on an oracle failure.  The
\* pipeline sees only what filter_relevant_markets returned, and the
\* adapter's two failure summaries are all that tells a failure apart.
FilterStepStatus(result) ==
    IF result.reasoning_summary \in {"Analysis failed", "No response from LLM"}
    THEN "error" ELSE "complete"

\* 4.1 step 2: not relevant, or nothing relevant: straight to Complete
NothingRelevant(result) ==
    ~result.is_relevant \/ result.relevant_market_ids = <<>>

\* 4.1 step 3: one slot per position of relevantMarketIds
NewTasks(ids) ==
    [i \in 1..Len(ids) |->
        [marketId |-> ids[i], state |-> "running", failed |-> FALSE,
         result |-> NoBody]]

AllSettled(ts) == \A i \in 1..Len(ts) : ts[i].state = "done"

\* mutant: impacts are emitted in the reverse of the slot order
AssembleImpacts_reversed(ts) ==
    [i \in 1..Len(ts) |->
        MarketImpact(ts[Len(ts) + 1 - i].marketId, ts[Len(ts) + 1 - i].result)]

\* 4.1 step 3: insertion order follows relevantMarketIds, not completion order
AssembleImpacts(ts) ==
    [i \in 1..Len(ts) |-> MarketImpact(ts[i].marketId, ts[i].result)]

\* 4.1 step 4: the pick must be one of the candidates
ValidSelection(sel, candidates) ==
    ~sel.none /\ sel.selected_market_id \in MarketIdsOf(candidates)

\* mutant: the first candidate is traded, whichever the selection names
SelectedImpact_first(sel, candidates) == candidates[1]

\* the candidate the selection names (the first, should an id repeat)
SelectedImpact(sel, candidates) ==
    candidates[CHOOSE i \in 1..Len(candidates) :
        /\ candidates[i].marketId = sel.selected_market_id
        /\ \A j \in 1..(i - 1) : candidates[j].marketId # sel.selected_market_id]

\* 4.1 step 5: the market's trade token for the side of the decision
TokenFor(market, side) ==
    IF side = market.yesLabel THEN market.yesTokenId
    ELSE IF side = market.noLabel THEN market.noTokenId
    ELSE NoToken

\* 4.1 numeric policy: the price is clamped to [0.01, 0.99]
ClampPrice(p) == IF p < PriceMin THEN PriceMin ELSE IF p > PriceMax THEN PriceMax ELSE p

\* an adapter operation called on its own: what it was given and what came back
Called(op, asked, result) == [op |-> op, asked |-> asked, result |-> result]

NoCall == Called("none", NoBody, Returned(NoBody))

\* a history query: the kind, and for a filter the statuses and the start
\* of the date range
HistoryQuery(kind, statuses, since) == [kind |-> kind, statuses |-> statuses, since |-> since]

\* what a query emits: the sessions of a filter, the counts of the analytics
QueryResult(sessions, counts) == [sessions |-> sessions, counts |-> counts]

\* a history query with its result; none has been asked yet
Asked(q, result) == [q |-> q, result |-> result]

NoQuery == Asked(HistoryQuery("none", {}, 0), QueryResult(<<>>, <<>>))

----------------------------------------------------------------------------
\* Event source: TwitterService (services/twitter_service.py)

\* TwitterService.__init__
max_reconnect_attempts == 5
min_reconnect_delay == 90

\* longest "tweets" array of an inbound message
MaxTweetsData == 2

\* the "text" key is not in the message
NoText == "absent"

\* an element of a "tweets" array: a dict with a blank text, a dict with a
\* text by an account that is selected or not, or something that is no dict
TweetData ==
    {[dict |-> TRUE, text |-> "", selected |-> TRUE],
     [dict |-> TRUE, text |-> "rates cut", selected |-> TRUE],
     [dict |-> TRUE, text |-> "rates cut", selected |-> FALSE],
     [dict |-> FALSE, text |-> "", selected |-> FALSE]}

\* the tweet in the message root: no "text" key, a blank text, or a text by
\* an account that is selected or not
RootTweets ==
    {[text |-> NoText, selected |-> FALSE], [text |-> "", selected |-> TRUE],
     [text |-> "rates cut", selected |-> TRUE], [text |-> "rates cut", selected |-> FALSE]}

NoMessage == [json |-> "none", type |-> "", text |-> NoText, selected |-> FALSE,
              tweets |-> <<>>]

\* what the websocket can push: text that is no JSON, JSON that is no
\* object, or an object with an event type, perhaps a text of its own (the
\* tweet in the message root) and perhaps a "tweets" array
Messages ==
    {[json |-> j, type |-> "", text |-> NoText, selected |-> FALSE, tweets |-> <<>>] :
        j \in {"invalid", "scalar"}}
    \cup {[json |-> "object", type |-> ty, text |-> root.text,
            selected |-> root.selected, tweets |-> tw] :
            ty \in {"connected", "ping", "tweet", "like"}, root \in RootTweets,
            tw \in SeqsUpTo(TweetData, MaxTweetsData)}

\* mutant: a tweet with a blank text is built like any other
parse_tweet_blank(data) ==
    IF data.dict THEN <<[text |-> data.text, selected |-> data.selected]>> ELSE <<>>

\* _parse_tweet: None (here the empty sequence) when data.get fails on a
\* non-dict, which the except branch catches, and when the text is blank;
\* else the Tweet
parse_tweet(data) ==
    IF data.dict /\ data.text # ""
    THEN <<[text |-> data.text, selected |-> data.selected]>>
    ELSE <<>>

\* the tweets _handle_message passes to on_tweet out of one parsed tweet:
\* it, if its author is one of the selected accounts
Passed(parsed) ==
    IF parsed # <<>> /\ parsed[1].selected THEN parsed ELSE <<>>

RECURSIVE PassedOf(_)
PassedOf(tweets_data) ==
    IF tweets_data = <<>> THEN <<>>
    ELSE Passed(parse_tweet(Head(tweets_data))) \o PassedOf(Tail(tweets_data))

\* _handle_message: the tweets on_tweet is awaited with, in order.  Every
\* exception inside (json.loads, msg.get on a non-object) ends in
\* "except Exception", which prints and returns.
handle_message(msg) ==
    IF msg.json # "object" THEN Returned(<<>>)
    ELSE IF msg.type # "tweet" THEN Returned(<<>>)
    ELSE IF msg.text # NoText
    THEN Returned(Passed(parse_tweet([dict |-> TRUE, text |-> msg.text,
                                      selected |-> msg.selected])))
    ELSE Returned(PassedOf(msg.tweets))

\* mutant: the attempts are not compared with the maximum
reconnect_unbounded(attempts) ==
    [attempts |-> attempts + 1, delay |-> min_reconnect_delay * 2^attempts]

\* _reconnect: the new reconnect_attempts and the seconds slept
reconnect(attempts) ==
    IF attempts >= max_reconnect_attempts
    THEN [attempts |-> attempts, delay |-> 0]
    ELSE [attempts |-> attempts + 1,
          delay |-> min_reconnect_delay * 2^((attempts + 1) - 1)]

\* the client as built: not connected, no attempts; and what it did last:
\* the seconds it slept in _reconnect, the message it handled and the
\* tweets on_tweet got from it
NewTwitterService ==
    [connected |-> FALSE, listening |-> FALSE, reconnect_attempts |-> 0,
     slept |-> 0, last |-> "init", msg |-> NoMessage, called |-> <<>>]

----------------------------------------------------------------------------
\* Demo mode (backend/main.py): demo_mode_task and the observers

MaxObservers == 2
MaxDemoTasks == 3
MaxDemoEvents == 2

\* no task yet; a task is "running", "cancelling" (cancel() was called, the
\* CancelledError has not been raised in it yet) or "done"
NewDemo ==
    [observers |-> 0, demo_mode_task |-> 0, tasks |-> <<>>, configured |-> FALSE,
     generated |-> 0]

\* mutant: configure starts a generator whatever demo_mode_task is
needs_demo_task_always(d) == TRUE

\* configure: if not demo_mode_task or demo_mode_task.done()
needs_demo_task(d) ==
    \/ d.demo_mode_task = 0
    \/ d.tasks[d.demo_mode_task] = "done"

Init ==
    /\ pc = "listening"
    /\ session = NoSession
    /\ filterCall = IdleCall
    /\ tasks = <<>>
    /\ selectCall = [state |-> "idle", failed |-> FALSE, candidates |-> <<>>,
                     result |-> NoSelection]
    /\ orderCall = [calls |-> 0, submitted |-> 0]
    /\ requests = [filter |-> 0, analyze |-> 0, select |-> 0]
    /\ outOfOrder = FALSE
    /\ delivered = "nothing"
    /\ adapterCall = NoCall
    /\ marketsSent = <<>>
    /\ listeners = <<>>
    /\ produced = 0
    /\ store = <<>>
    /\ clock = 0
    /\ lastQuery = NoQuery
    /\ twitter = NewTwitterService
    /\ demo = NewDemo

\* main.py on_tweet_received: the raw event is emitted, then process_tweet
\* runs; an emit that raises is caught and nothing else happens.
\* 4.1 step 1: the session is created with its receiving step.
OnTweetReceived(emitOk) ==
    /\ pc = "listening"
    /\ IF emitOk
       THEN /\ session' = NewSession
            /\ pc' = "received"
       ELSE /\ pc' = "dropped"
            /\ UNCHANGED session
    /\ UNCHANGED <<filterCall, tasks, selectCall, orderCall, requests, outOfOrder>>
    /\ UNCHANGED <<delivered, adapterCall, storeSide, sourceSide>>

\* 4.1 step 2: the filtering step is appended and the oracle is asked
StartFiltering ==
    /\ pc = "received"
    /\ session' = [session EXCEPT !.steps = Append(@, Step("filtering", "processing"))]
    /\ filterCall' = [state |-> "inflight", failed |-> FALSE, saidRelevant |-> FALSE]
    /\ requests' = [requests EXCEPT !.filter = @ + 1]
    /\ pc' = "filtering"
    /\ UNCHANGED <<tasks, selectCall, orderCall, outOfOrder>>
    /\ UNCHANGED <<delivered, adapterCall, storeSide, sourceSide>>

FilterReturns(resp) ==
    /\ pc = "filtering"
    /\ filterCall' = [state |-> "done", failed |-> FilterRequestFailed(resp),
                      saidRelevant |-> ~FilterRequestFailed(resp)
                                       /\ resp.body.is_relevant]
    /\ LET r == filter_relevant_markets(resp)
       IN  IF r.raised
           THEN /\ pc' = "aborted"
                /\ UNCHANGED session
           ELSE /\ session' = [session EXCEPT
                                 !.filterResult = r.value,
                                 !.steps = SetLastStatus(@, FilterStepStatus(r.value))]
                /\ pc' = IF NothingRelevant(r.value) THEN "completing" ELSE "relevant"
    /\ requests' = [requests EXCEPT
                      !.filter = @ + oracle_retries(FilterRequestFailed(resp))]
    /\ UNCHANGED <<tasks, selectCall, orderCall, outOfOrder>>
    /\ UNCHANGED <<delivered, adapterCall, storeSide, sourceSide>>

\* 4.1 step 3: one analyzing step for the batch, one concurrent call per id
StartAnalyzing ==
    /\ pc = "relevant"
    /\ session' = [session EXCEPT !.steps = Append(@, Step("analyzing", "processing"))]
    /\ tasks' = NewTasks(session.filterResult.relevant_market_ids)
    /\ requests' = [requests EXCEPT
                      !.analyze = @ + Len(session.filterResult.relevant_market_ids)]
    /\ pc' = "analyzing"
    /\ UNCHANGED <<filterCall, selectCall, orderCall, outOfOrder>>
    /\ UNCHANGED <<delivered, adapterCall, storeSide, sourceSide>>

\* one of the concurrent calls returns, in any order
AnalysisReturns(i, resp) ==
    /\ pc = "analyzing"
    /\ i \in 1..Len(tasks)
    /\ tasks[i].state = "running"
    /\ LET r == analyze_market_impact(Market(tasks[i].marketId), resp)
       IN  IF r.raised
           THEN /\ pc' = "aborted"
                /\ tasks' = [tasks EXCEPT ![i] = [@ EXCEPT !.state = "done",
                                                             !.failed = TRUE]]
           ELSE /\ pc' = pc
                /\ tasks' = [tasks EXCEPT ![i] =
                               [marketId |-> @.marketId, state |-> "done",
                                failed |-> AnalysisRequestFailed(resp),
                                result |-> r.value]]
    /\ outOfOrder' = (outOfOrder \/ \E j \in 1..(i - 1) : tasks[j].state = "running")
    /\ requests' = [requests EXCEPT
                      !.analyze = @ + oracle_retries(AnalysisRequestFailed(resp))]
    /\ UNCHANGED <<session, filterCall, selectCall, orderCall>>
    /\ UNCHANGED <<delivered, adapterCall, storeSide, sourceSide>>

\* the barrier: every call has returned or been defaulted
JoinAnalyzing ==
    /\ pc = "analyzing"
    /\ AllSettled(tasks)
    /\ session' = [session EXCEPT
                     !.marketImpacts = AssembleImpacts(tasks),
                     !.steps = SetLastStatus(@, "complete")]
    /\ pc' = "deciding"
    /\ UNCHANGED <<filterCall, tasks, selectCall, orderCall, requests, outOfOrder>>
    /\ UNCHANGED <<delivered, adapterCall, storeSide, sourceSide>>

\* stands for "no response": the call that is answered without a request
Unasked == Failure("unasked")

\* 4.1 step 4: what the pipeline does with the answer of select_best_market:
\* a validated pick goes on to Executing, anything else is the unrecoverable
\* stage failure
TakeSelection(r, candidates, asked, failed) ==
    IF r.raised
    THEN /\ pc' = "aborted"
         /\ selectCall' = [state |-> "raised", failed |-> failed,
                           candidates |-> candidates, result |-> NoSelection]
         /\ session' = [session EXCEPT !.steps = Append(@, Step("deciding", "processing"))]
    ELSE IF ValidSelection(r.value, candidates)
    THEN /\ pc' = "selected"
         /\ selectCall' = [state |-> "chosen", failed |-> failed,
                           candidates |-> candidates, result |-> r.value]
         /\ session' = [session EXCEPT
                          !.steps = IF asked THEN SetLastStatus(@, "complete")
                                    ELSE Append(@, Step("deciding", "complete"))]
    ELSE /\ pc' = "completing"
         /\ selectCall' = [state |-> "rejected", failed |-> failed,
                           candidates |-> candidates, result |-> r.value]
         /\ session' = [session EXCEPT
                          !.steps = IF asked THEN SetLastStatus(@, "error")
                                    ELSE Append(@, Step("deciding", "error"))]

\* 4.1 step 4: no candidate, one candidate, or the oracle's choice
Decide ==
    /\ pc = "deciding"
    /\ LET candidates == Actionable(session.marketImpacts)
       IN  IF candidates = <<>>
           THEN /\ session' = [session EXCEPT
                                 !.steps = Append(@, Step("deciding", "complete"))]
                /\ pc' = "completing"
                /\ UNCHANGED <<selectCall, requests>>
           ELSE IF select_needs_request(candidates)
           THEN /\ session' = [session EXCEPT
                                 !.steps = Append(@, Step("deciding", "processing"))]
                /\ selectCall' = [state |-> "inflight", failed |-> FALSE,
                                  candidates |-> candidates, result |-> NoSelection]
                /\ requests' = [requests EXCEPT !.select = @ + 1]
                /\ pc' = "selecting"
           ELSE /\ TakeSelection(select_best_market(candidates, Unasked),
                                 candidates, FALSE, FALSE)
                /\ UNCHANGED requests
    /\ UNCHANGED <<filterCall, tasks, orderCall, outOfOrder>>
    /\ UNCHANGED <<delivered, adapterCall, storeSide, sourceSide>>

SelectReturns(resp) ==
    /\ pc = "selecting"
    /\ TakeSelection(select_best_market(selectCall.candidates, resp),
                     selectCall.candidates, TRUE,
                     resp.kind # "json" \/ ~ValidSelectionBody(resp.body))
    /\ requests' = [requests EXCEPT
                      !.select = @ + oracle_retries(resp.kind # "json"
                                                    \/ ~ValidSelectionBody(resp.body))]
    /\ UNCHANGED <<filterCall, tasks, orderCall, outOfOrder>>
    /\ UNCHANGED <<delivered, adapterCall, storeSide, sourceSide>>

\* 4.1 step 5: one place_order call with the fixed size, the clamped price
\* and the token of the decision's side; its TradeExecution is appended.
\* place_order holds no await: it runs to its return in one step.
\* mutant: the session is marked complete as soon as the order is recorded
ExecutedSession_sealed(s, trade) ==
    [s EXCEPT !.trades = Append(@, trade),
              !.status = "complete",
              !.steps = Append(@, Step("executing",
                          IF trade.status = "confirmed" THEN "complete" ELSE "error"))]

\* the session after Executing: the trade and the executing step are appended
ExecutedSession(s, trade) ==
    [s EXCEPT !.trades = Append(@, trade),
              !.steps = Append(@, Step("executing",
                          IF trade.status = "confirmed" THEN "complete" ELSE "error"))]

Execute(venue) ==
    /\ pc = "selected"
    /\ LET impact == SelectedImpact(selectCall.result, selectCall.candidates)
           market == Market(impact.marketId)
           side   == impact.tradeDecision.side
           token  == TokenFor(market, side)
           trade  == place_order(impact.marketId, side, FixedTradeSize,
                                 ClampPrice(impact.tradeDecision.suggestedPrice),
                                 token, venue)
       IN  /\ session' = ExecutedSession(session, trade)
           /\ orderCall' = [calls |-> orderCall.calls + 1,
                            submitted |-> orderCall.submitted
                                          + place_order_submissions(token, venue)]
    /\ pc' = "completing"
    /\ UNCHANGED <<filterCall, tasks, selectCall, requests, outOfOrder>>
    /\ UNCHANGED <<delivered, adapterCall, storeSide, sourceSide>>

\* 4.1 step 6: the session is sealed
Seal ==
    /\ pc = "completing"
    /\ session' = [session EXCEPT
                     !.status = IF selectCall.state = "rejected" THEN "error"
                                ELSE "complete",
                     !.endTime = TRUE,
                     !.steps = Append(@, Step("complete", "complete"))]
    /\ pc' = "sealed"
    /\ UNCHANGED <<filterCall, tasks, selectCall, orderCall, requests, outOfOrder>>
    /\ UNCHANGED <<delivered, adapterCall, storeSide, sourceSide>>

Next ==
    \/ \E emitOk \in BOOLEAN : OnTweetReceived(emitOk)
    \/ StartFiltering
    \/ \E resp \in FilterResponses : FilterReturns(resp)
    \/ StartAnalyzing
    \/ \E i \in 1..Len(tasks) :
          \E resp \in AnalysisResponses(tasks[i].marketId) : AnalysisReturns(i, resp)
    \/ JoinAnalyzing
    \/ Decide
    \/ \E resp \in SelectionResponses : SelectReturns(resp)
    \/ \E venue \in VenueResponses : Execute(venue)
    \/ Seal

Spec == Init /\ [][Next]_vars

----------------------------------------------------------------------------
\* The server around the pipeline (backend/main.py)

pipeline == <<pc, session, filterCall, tasks, selectCall, orderCall, requests, outOfOrder>>

\* connect and history:get_session send an observer a copy of the session
\* (s.dict()); the store is only read
ObserverReads ==
    /\ session.status # "none"
    /\ delivered' = session.status
    /\ UNCHANGED <<pipeline, adapterCall, storeSide, sourceSide>>

\* disconnect of the last observer cancels demo_mode_task.  run_demo_mode
\* awaits on_tweet_received inline, so the pipeline of a demo event runs
\* inside that task: the CancelledError is raised at the remote request the
\* pipeline is awaiting, passes the adapters' and the handler's
\* "except Exception" (it is a BaseException) and ends the execution.
CancelDemo ==
    /\ pc \in {"filtering", "analyzing", "selecting"}
    /\ pc' = "cancelled"
    /\ UNCHANGED <<session, filterCall, tasks, selectCall, orderCall, requests,
                   outOfOrder, delivered, adapterCall, storeSide, sourceSide>>

NextServer ==
    \/ Next
    \/ ObserverReads
    \/ CancelDemo

\* the pipeline of a demo event, with observers reading and leaving; every
\* remote request is taken to return or raise in the end
SpecServer == Init /\ [][NextServer]_vars /\ WF_vars(Next)

----------------------------------------------------------------------------
\* Each adapter operation on its own, applied to everything its remote
\* side can do; one call per behaviour

\* more ids than the filter prompt allows ("Maximum 5 markets")
MaxFilterIds == 5

OversizeIds == <<"101", "102", "103", "104", "105", "106">>

FilterInputs ==
    FilterResponses
    \cup {Json([fields |-> FilterFields, is_relevant |-> TRUE,
                relevant_market_ids |-> OversizeIds,
                reasoning_summary |-> "markets affected"])}

\* candidate lists for select_best_market: none, one, two
CandidateLists ==
    LET buy  == AnalysisResponse("101", "POSITIVE", 70, 80,
                                 TradeDecision("BUY", "YES", 60, 5))
        sell == AnalysisResponse("102", "NEGATIVE", 60, 60,
                                 TradeDecision("SELL", "NO", 30, 50))
    IN  { <<>>, <<MarketImpact("101", buy)>>,
          <<MarketImpact("101", buy), MarketImpact("102", sell)>> }

CallFilter(resp) ==
    /\ adapterCall.op = "none"
    /\ adapterCall' = Called("filter_relevant_markets", resp,
                             filter_relevant_markets(resp))
    /\ UNCHANGED <<pipeline, delivered, storeSide, sourceSide>>

\* what the analysis oracle may answer when asked about market mid: the
\* answers above, and a well-formed judgment that names another market
AnalysisInputs(mid) ==
    AnalysisResponses(mid)
    \cup {Json(AnalysisResponse(other, "POSITIVE", 70, 80,
                                TradeDecision("BUY", "YES", 60, 5))) :
             other \in MarketIds \ {mid}}

CallAnalyze(mid, resp) ==
    /\ adapterCall.op = "none"
    /\ adapterCall' = [op |-> "analyze_market_impact", market |-> mid, asked |-> resp,
                       result |-> analyze_market_impact(Market(mid), resp)]
    /\ UNCHANGED <<pipeline, delivered, storeSide, sourceSide>>

CallSelect(impacts, resp) ==
    /\ adapterCall.op = "none"
    /\ adapterCall' = Called("select_best_market", [impacts |-> impacts, resp |-> resp],
                             select_best_market(impacts, resp))
    /\ UNCHANGED <<pipeline, delivered, storeSide, sourceSide>>

CallPlaceOrder(token_id, venue) ==
    /\ adapterCall.op = "none"
    /\ adapterCall' = [op |-> "place_order",
                       asked |-> [token_id |-> token_id, venue |-> venue],
                       result |-> Returned(place_order("101", "YES", FixedTradeSize, 60,
                                                       token_id, venue)),
                       submitted |-> place_order_submissions(token_id, venue)]
    /\ UNCHANGED <<pipeline, delivered, storeSide, sourceSide>>

CallGetMarkets(resp) ==
    /\ adapterCall.op = "none"
    /\ adapterCall' = Called("get_markets", resp, get_markets(resp))
    /\ UNCHANGED <<pipeline, delivered, storeSide, sourceSide>>

CallGetBalance(resp) ==
    /\ adapterCall.op = "none"
    /\ adapterCall' = Called("get_balance", resp, get_balance(resp))
    /\ UNCHANGED <<pipeline, delivered, storeSide, sourceSide>>

NextAdapters ==
    \/ \E resp \in FilterInputs : CallFilter(resp)
    \/ \E mid \in MarketIds : \E resp \in AnalysisInputs(mid) : CallAnalyze(mid, resp)
    \/ \E impacts \in CandidateLists : \E resp \in SelectionResponses :
          CallSelect(impacts, resp)
    \/ \E token_id \in {"tokY", NoToken} : \E venue \in VenueResponses :
          CallPlaceOrder(token_id, venue)
    \/ \E resp \in MarketsResponses : CallGetMarkets(resp)
    \/ \E resp \in BalanceResponses : CallGetBalance(resp)

SpecAdapters == Init /\ [][NextAdapters]_vars

----------------------------------------------------------------------------
\* The catalog as observers get it (backend/main.py connect)

MaxConnects == 3

ListedMarket(st, mid) ==
    [kind |-> "dict", statusEnum |-> st, yesTokenId |-> "tokY", noTokenId |-> "tokN",
     marketId |-> mid, volumeOk |-> TRUE]

\* what the venue answers to the fetch of one connect: it fails, or it lists
\* activated markets, possibly with one that is only created
CatalogFetches ==
    {[kind |-> "raise", list |-> <<>>]}
    \cup {[kind |-> "list", list |-> l] :
            l \in SeqsUpTo({ListedMarket("Activated", "101"),
                            ListedMarket("Activated", "102"),
                            ListedMarket("Created", "101")}, MaxRawMarkets)}

\* connect: markets = opinion_service.get_markets(), then the 'markets' emit
\* of that list to the observer; nothing is kept between two connects
Connect(resp) ==
    /\ Len(marketsSent) < MaxConnects
    /\ marketsSent' = Append(marketsSent,
                             [fetched |-> resp.kind # "raise",
                              markets |-> get_markets(resp).value])
    /\ UNCHANGED <<pipeline, delivered, adapterCall, sourceSide, listeners, produced, store,
                   clock, lastQuery>>

NextCatalog == \E resp \in CatalogFetches : Connect(resp)

SpecCatalog == Init /\ [][NextCatalog]_vars

----------------------------------------------------------------------------
\* The Session Store across events, with the event source in Twitter mode
\* (backend/main.py configure, services/twitter_service.py connect).  A
\* session is kept here as a summary; what its pipeline does in detail is
\* the single-event model above.

MaxEvents == 2
MaxListeners == 2
MaxSessions == 2

SessionStatuses == {"active", "complete", "error"}

\* configure awaits twitter_service.connect(sources): a new websocket is
\* opened and its listen loop runs; a connection that is already open is
\* neither asked about nor closed.  The upstream pushes each event to every
\* open connection; the new one gets the events pushed from now on.
Configure ==
    /\ Len(listeners) < MaxListeners
    /\ listeners' = Append(listeners, [open |-> TRUE, next |-> produced + 1,
                                       phase |-> "idle", sess |-> 0])
    /\ UNCHANGED <<pipeline, delivered, adapterCall, sourceSide, marketsSent, produced, store,
                   clock, lastQuery>>

\* disconnect with no observer left: twitter_service.disconnect closes
\* self.ws, the websocket of the latest connect
Disconnect ==
    /\ listeners # <<>>
    /\ listeners[Len(listeners)].open
    /\ listeners' = [listeners EXCEPT ![Len(listeners)].open = FALSE]
    /\ UNCHANGED <<pipeline, delivered, adapterCall, sourceSide, marketsSent, produced, store,
                   clock, lastQuery>>

\* the upstream pushes the next event
Produce ==
    /\ produced < MaxEvents
    /\ produced' = produced + 1
    /\ clock' = clock + 1
    /\ UNCHANGED <<pipeline, delivered, adapterCall, sourceSide, marketsSent, listeners, store,
                   lastQuery>>

\* _handle_message: await self.on_tweet(tweet), the task of on_tweet_received,
\* which begins with the 'tweet' emit; the loop reads no further message
\* until that task is done.  (No event is taken up once the store holds
\* MaxSessions sessions.)
Deliver(l) ==
    /\ listeners[l].open
    /\ listeners[l].phase = "idle"
    /\ listeners[l].next <= produced
    /\ Len(store) < MaxSessions
    /\ listeners' = [listeners EXCEPT ![l].phase = "emitting"]
    /\ UNCHANGED <<pipeline, delivered, adapterCall, sourceSide, marketsSent, produced, store,
                   clock, lastQuery>>

\* 4.1 step 1 after the emit: the session is created with the time of its
\* creation as startTime and appended to the store
Admit(l) ==
    /\ listeners[l].phase = "emitting"
    /\ Len(store) < MaxSessions
    /\ store' = Append(store, [id |-> Len(store) + 1, event |-> listeners[l].next,
                               startTime |-> clock, status |-> "active", owner |-> l])
    /\ listeners' = [listeners EXCEPT ![l].phase = "running", ![l].sess = Len(store) + 1]
    /\ clock' = clock + 1
    /\ lastQuery' = NoQuery
    /\ UNCHANGED <<pipeline, delivered, adapterCall, sourceSide, marketsSent, produced>>

\* mutant: the seal is written to the oldest session of the store
SealedStore_oldest(st, i, status) == [st EXCEPT ![1].status = status]

\* 4.1 step 6: the pipeline seals its own session
SealedStore(st, i, status) == [st EXCEPT ![i].status = status]

Finish(l, status) ==
    /\ listeners[l].phase = "running"
    /\ store' = SealedStore(store, listeners[l].sess, status)
    /\ listeners' = [listeners EXCEPT ![l].phase = "idle", ![l].sess = 0,
                                      ![l].next = @ + 1]
    /\ lastQuery' = NoQuery
    /\ UNCHANGED <<pipeline, delivered, adapterCall, sourceSide, marketsSent, produced, clock>>

\* mutant: the date range is counted back from the present time
Matches_recent(s, f) ==
    /\ s.status \in f.statuses
    /\ s.startTime + f.since + 1 >= clock

\* 4.5 Filter: the conjunction of the given predicates, here status and
\* the start of the date range
Matches(s, f) ==
    /\ s.status \in f.statuses
    /\ s.startTime >= f.since

RECURSIVE get_filtered_history(_, _)
get_filtered_history(f, st) ==
    IF st = <<>> THEN <<>>
    ELSE IF Matches(Head(st), f)
    THEN <<Head(st)>> \o get_filtered_history(f, Tail(st))
    ELSE get_filtered_history(f, Tail(st))

CountStatus(st, status) == Cardinality({i \in 1..Len(st) : st[i].status = status})

\* 4.5 Analytics: total, completed, errored and active sessions, derived
\* afresh from the whole store
calculate_analytics(st) ==
    <<Len(st), CountStatus(st, "complete"), CountStatus(st, "error"),
      CountStatus(st, "active")>>

AllQuery == HistoryQuery("filter", SessionStatuses, 0)

HistoryQueries ==
    { AllQuery,
      HistoryQuery("filter", {"complete"}, 2),
      HistoryQuery("analytics", {}, 0) }

RunQuery(q, st) ==
    IF q.kind = "analytics" THEN QueryResult(<<>>, calculate_analytics(st))
    ELSE QueryResult(get_filtered_history(q, st), <<>>)

\* history_filter and history_analytics: the result is computed from the
\* store and copies (s.dict()) are emitted to the observer
Query(q) ==
    /\ lastQuery' = Asked(q, RunQuery(q, store))
    /\ UNCHANGED <<pipeline, delivered, adapterCall, sourceSide, marketsSent, listeners, produced,
                   store, clock>>

NextStore ==
    \/ Configure
    \/ Disconnect
    \/ Produce
    \/ \E l \in 1..Len(listeners) : Deliver(l)
    \/ \E l \in 1..Len(listeners) : Admit(l)
    \/ \E l \in 1..Len(listeners) : \E status \in {"complete", "error"} : Finish(l, status)
    \/ Query(AllQuery)

SpecStore == Init /\ [][NextStore]_vars

\* The history queries over the store that one listen loop fills: the
\* observers send configure once, and ask for the history at any time.
NextHistory ==
    \/ listeners = <<>> /\ Configure
    \/ Produce
    \/ \E l \in 1..Len(listeners) : Deliver(l)
    \/ \E l \in 1..Len(listeners) : Admit(l)
    \/ \E l \in 1..Len(listeners) : \E status \in {"complete", "error"} : Finish(l, status)
    \/ \E q \in HistoryQueries : Query(q)

SpecHistory == Init /\ [][NextHistory]_vars

----------------------------------------------------------------------------
\* The event-source client: connect, its listen loop and _reconnect

\* connect: ws_connect succeeds, the attempts are reset, the loop listens
TwitterConnects ==
    /\ twitter' = [twitter EXCEPT !.connected = TRUE, !.listening = TRUE,
                                  !.reconnect_attempts = 0, !.last = "connected",
                                  !.slept = 0, !.msg = NoMessage, !.called = <<>>]
    /\ UNCHANGED <<pipeline, delivered, adapterCall, storeSide, demo>>

\* connect: ws_connect raises, or reading the websocket does: the except
\* branch calls on_error and awaits _reconnect; nothing connects again
\* until the next configure
TwitterFails ==
    /\ LET r == reconnect(twitter.reconnect_attempts)
       IN  twitter' = [twitter EXCEPT !.listening = FALSE,
                                      !.reconnect_attempts = r.attempts,
                                      !.slept = r.delay, !.last = "reconnect",
                                      !.msg = NoMessage, !.called = <<>>]
    /\ UNCHANGED <<pipeline, delivered, adapterCall, storeSide, demo>>

\* async for msg in self.ws, a TEXT message: await self._handle_message.
\* An exception leaving _handle_message would end the loop in connect's
\* except branch.
Receive(msg) ==
    /\ twitter.listening
    /\ LET h == handle_message(msg)
           r == reconnect(twitter.reconnect_attempts)
       IN  IF h.raised
           THEN twitter' = [twitter EXCEPT !.msg = msg, !.called = <<>>,
                                           !.listening = FALSE,
                                           !.reconnect_attempts = r.attempts,
                                           !.slept = r.delay, !.last = "reconnect"]
           ELSE twitter' = [twitter EXCEPT !.msg = msg, !.called = h.value,
                                           !.slept = 0, !.last = "message"]
    /\ UNCHANGED <<pipeline, delivered, adapterCall, storeSide, demo>>

\* async for msg in self.ws, an ERROR message: break, connect returns
WsError ==
    /\ twitter.listening
    /\ twitter' = [twitter EXCEPT !.listening = FALSE, !.last = "ws error",
                                  !.slept = 0, !.msg = NoMessage, !.called = <<>>]
    /\ UNCHANGED <<pipeline, delivered, adapterCall, storeSide, demo>>

\* disconnect: the websocket is closed and the loop ends
TwitterDisconnects ==
    /\ twitter.connected
    /\ twitter' = [twitter EXCEPT !.connected = FALSE, !.listening = FALSE,
                                  !.last = "disconnected",
                                  !.slept = 0, !.msg = NoMessage, !.called = <<>>]
    /\ UNCHANGED <<pipeline, delivered, adapterCall, storeSide, demo>>

NextTwitter ==
    \/ TwitterConnects
    \/ TwitterFails
    \/ \E msg \in Messages : Receive(msg)
    \/ WsError
    \/ TwitterDisconnects

SpecTwitter == Init /\ [][NextTwitter]_vars

----------------------------------------------------------------------------
\* Demo mode: observers come and go, configure starts the generator task,
\* the disconnect of the last observer cancels it

DemoConnect ==
    /\ demo.observers < MaxObservers
    /\ demo' = [demo EXCEPT !.observers = @ + 1]
    /\ UNCHANGED <<pipeline, delivered, adapterCall, storeSide, twitter>>

\* configure in demo mode
DemoConfigure ==
    /\ demo.observers > 0
    /\ IF needs_demo_task(demo)
       THEN /\ Len(demo.tasks) < MaxDemoTasks
            /\ demo' = [demo EXCEPT !.tasks = Append(@, "running"),
                                    !.demo_mode_task = Len(demo.tasks) + 1,
                                    !.configured = TRUE]
       ELSE demo' = [demo EXCEPT !.configured = TRUE]
    /\ UNCHANGED <<pipeline, delivered, adapterCall, storeSide, twitter>>

\* disconnect: with no observer left, demo_mode_task.cancel() unless the
\* task is done; cancel() asks for the cancellation, the task ends later
DemoDisconnect ==
    /\ demo.observers > 0
    /\ LET t == demo.demo_mode_task
       IN  IF demo.observers = 1
           THEN demo' = [demo EXCEPT
                           !.observers = 0,
                           !.configured = FALSE,
                           !.tasks = IF t # 0 /\ demo.tasks[t] # "done"
                                     THEN [@ EXCEPT ![t] = "cancelling"] ELSE @]
           ELSE demo' = [demo EXCEPT !.observers = @ - 1]
    /\ UNCHANGED <<pipeline, delivered, adapterCall, storeSide, twitter>>

\* run_demo_mode: the CancelledError is raised at the await, the task ends
DemoTaskEnds(i) ==
    /\ demo.tasks[i] = "cancelling"
    /\ demo' = [demo EXCEPT !.tasks[i] = "done"]
    /\ UNCHANGED <<pipeline, delivered, adapterCall, storeSide, twitter>>

\* run_demo_mode: after the sleep, a mock tweet is generated and handled
DemoGenerates(i) ==
    /\ demo.tasks[i] = "running"
    /\ demo.generated < MaxDemoEvents
    /\ demo' = [demo EXCEPT !.generated = @ + 1]
    /\ UNCHANGED <<pipeline, delivered, adapterCall, storeSide, twitter>>

NextDemo ==
    \/ DemoConnect
    \/ DemoConfigure
    \/ DemoDisconnect
    \/ \E i \in 1..Len(demo.tasks) : DemoTaskEnds(i)
    \/ \E i \in 1..Len(demo.tasks) : DemoGenerates(i)

SpecDemo == Init /\ [][NextDemo]_vars

----------------------------------------------------------------------------
\* The history queries in full (4.5): the filter with every predicate of
\* HistoryFilter and the analytics with the trade counts, over sessions
\* that carry what the queries read.  Text is a sequence of characters.

MaxStored == 2

\* an optional field of HistoryFilter: None, or a value
Omitted == <<>>
Given(v) == <<v>>

Impact(category, confidence) == [category |-> category, confidence |-> confidence]

\* sealed and running sessions as the pipeline leaves them: at most one
\* trade, confirmed or failed
StoredSessions ==
    { [status |-> "complete", startTime |-> 1, author |-> <<"a", "b">>,
       text |-> <<"x", "y">>, trades |-> <<"confirmed">>,
       impacts |-> <<Impact("crypto", 80), Impact("politics", 40)>>],
      [status |-> "error", startTime |-> 2, author |-> <<"b", "c">>,
       text |-> <<"y", "z">>, trades |-> <<>>,
       impacts |-> <<Impact("politics", 60), Impact("politics", 70)>>],
      [status |-> "active", startTime |-> 3, author |-> <<"a", "b">>,
       text |-> <<"y", "z">>, trades |-> <<>>, impacts |-> <<>>],
      [status |-> "complete", startTime |-> 3, author |-> <<"b", "c">>,
       text |-> <<"x", "y">>, trades |-> <<"failed">>,
       impacts |-> <<Impact("crypto", 30)>>] }

\* HistoryFilter: every predicate left out or given
HistoryFilters ==
    { [kind |-> "filter", statuses |-> st, since |-> since, until |-> until,
       marketCategory |-> cat, author |-> au, tweetText |-> tx,
       minTrades |-> mn, maxTrades |-> mx, minConfidence |-> cf] :
        st \in {SessionStatuses, {"complete"}}, since \in {0, 2},
        until \in {Omitted, Given(2)},
        cat \in {Omitted, Given({"crypto"})},
        au \in {Omitted, Given(<<"b">>)}, tx \in {Omitted, Given(<<"y", "z">>)},
        mn \in {Omitted, Given(1)}, mx \in {Omitted, Given(0)},
        cf \in {Omitted, Given(50)} }

RECURSIVE Contains(_, _)
\* needle in text: at the start of the text, or in the text past its first
\* character
Contains(text, needle) ==
    IF Len(needle) > Len(text) THEN FALSE
    ELSE IF SubSeq(text, 1, Len(needle)) = needle THEN TRUE
    ELSE Contains(Tail(text), needle)

RECURSIVE MaxConfidence(_)
\* the highest confidence among the impacts, 0 without impacts
MaxConfidence(impacts) ==
    IF impacts = <<>> THEN 0
    ELSE LET rest == MaxConfidence(Tail(impacts))
         IN  IF Head(impacts).confidence > rest THEN Head(impacts).confidence ELSE rest

RECURSIVE HasCategory(_, _)
HasCategory(impacts, categories) ==
    IF impacts = <<>> THEN FALSE
    ELSE Head(impacts).category \in categories \/ HasCategory(Tail(impacts), categories)

\* mutant: the upper bound on the trades is not applied
MatchesEvery_nomax(s, f) ==
    /\ Matches(s, f)
    /\ f.until = Omitted \/ s.startTime <= f.until[1]
    /\ f.marketCategory = Omitted \/ HasCategory(s.impacts, f.marketCategory[1])
    /\ f.author = Omitted \/ Contains(s.author, f.author[1])
    /\ f.tweetText = Omitted \/ Contains(s.text, f.tweetText[1])
    /\ f.minTrades = Omitted \/ Len(s.trades) >= f.minTrades[1]
    /\ f.minConfidence = Omitted \/ MaxConfidence(s.impacts) >= f.minConfidence[1]

\* 4.5 Filter: status and start of the date range as above, and the end of
\* the range, the category, the two substrings, the trade-count bounds and
\* the minimum confidence, each only when given
MatchesEvery(s, f) ==
    /\ Matches(s, f)
    /\ f.until = Omitted \/ s.startTime <= f.until[1]
    /\ f.marketCategory = Omitted \/ HasCategory(s.impacts, f.marketCategory[1])
    /\ f.author = Omitted \/ Contains(s.author, f.author[1])
    /\ f.tweetText = Omitted \/ Contains(s.text, f.tweetText[1])
    /\ f.minTrades = Omitted \/ Len(s.trades) >= f.minTrades[1]
    /\ f.maxTrades = Omitted \/ Len(s.trades) <= f.maxTrades[1]
    /\ f.minConfidence = Omitted \/ MaxConfidence(s.impacts) >= f.minConfidence[1]

RECURSIVE filter_sessions(_, _)
filter_sessions(f, st) ==
    IF st = <<>> THEN <<>>
    ELSE IF MatchesEvery(Head(st), f)
    THEN <<Head(st)>> \o filter_sessions(f, Tail(st))
    ELSE filter_sessions(f, Tail(st))

RECURSIVE CountTrades_any(_, _)
\* mutant: every trade is counted, whatever its status
CountTrades_any(st, status) ==
    IF st = <<>> THEN 0
    ELSE Len(Head(st).trades) + CountTrades_any(Tail(st), status)

RECURSIVE CountTrades(_, _)
\* the trades of the given status over all sessions
CountTrades(st, status) ==
    IF st = <<>> THEN 0
    ELSE Len(SelectSeq(Head(st).trades, LAMBDA t : t = status))
         + CountTrades(Tail(st), status)

RECURSIVE TotalTrades(_)
TotalTrades(st) == IF st = <<>> THEN 0 ELSE Len(Head(st).trades) + TotalTrades(Tail(st))

\* 4.5 Analytics: the session counts above and the trade counts; the
\* success rate in hundredths, 0 when there is no trade
session_analytics(st) ==
    LET counts == calculate_analytics(st)
        total == TotalTrades(st)
        successful == CountTrades(st, "confirmed")
    IN  [totalSessions |-> counts[1], completedSessions |-> counts[2],
         erroredSessions |-> counts[3], activeSessions |-> counts[4],
         totalTrades |-> total, successfulTrades |-> successful,
         failedTrades |-> CountTrades(st, "failed"),
         successRate |-> IF total = 0 THEN 0 ELSE (successful * 100) \div total]

AnalyticsQuery == [kind |-> "analytics"]

\* a session is appended under the next id
StoreSession(s) ==
    /\ Len(store) < MaxStored
    /\ store' = Append(store, [id |-> Len(store) + 1] @@ s)
    /\ lastQuery' = NoQuery
    /\ UNCHANGED <<pipeline, delivered, adapterCall, sourceSide, marketsSent, listeners,
                   produced, clock>>

\* history:filter; one query is asked of each store
AskFilter(f) ==
    /\ lastQuery.q.kind = "none"
    /\ lastQuery' = Asked(f, QueryResult(filter_sessions(f, store), <<>>))
    /\ UNCHANGED <<pipeline, delivered, adapterCall, sourceSide, marketsSent, listeners,
                   produced, store, clock>>

\* history:analytics
AskAnalytics ==
    /\ lastQuery.q.kind = "none"
    /\ lastQuery' = Asked(AnalyticsQuery, QueryResult(<<>>, session_analytics(store)))
    /\ UNCHANGED <<pipeline, delivered, adapterCall, sourceSide, marketsSent, listeners,
                   produced, store, clock>>

NextQueries ==
    \/ \E s \in StoredSessions : StoreSession(s)
    \/ \E f \in HistoryFilters : AskFilter(f)
    \/ AskAnalytics

SpecQueries == Init /\ [][NextQueries]_vars

----------------------------------------------------------------------------
\* Properties

Candidates == Actionable(session.marketImpacts)

NumActionable == Len(Candidates)

\* the selection stage got nothing it can use: the request failed, or the
\* id it answered with is not one of the candidates
SelectionUnusable ==
    \/ selectCall.failed
    \/ selectCall.result.none
    \/ selectCall.result.selected_market_id \notin MarketIdsOf(selectCall.candidates)

SelectReturned == selectCall.state \in {"chosen", "rejected", "raised"}

\* C1, as stated: a sealed session with two or more actionable impacts holds
\* exactly one trade, whatever the selection oracle returned.
C1_ExactlyOneTrade ==
    (pc = "sealed" /\ NumActionable >= 2) => Len(session.trades) = 1

\* C1, amended: a session never holds more than one trade; a sealed session
\* with two or more actionable impacts holds exactly one trade when the
\* selection stage answered with the id of a candidate, and none when the
\* selection request failed or named an id that is not a candidate.
C1_OneTradeIffSelectionUsable ==
    /\ Len(session.trades) <= 1
    /\ (pc = "sealed" /\ NumActionable >= 2) =>
          /\ SelectionUnusable => session.trades = <<>>
          /\ ~SelectionUnusable => Len(session.trades) = 1

C1_Witness ==
    /\ pc = "sealed"
    /\ NumActionable >= 2
    /\ Len(session.marketImpacts) = NumActionable
    /\ ~SelectionUnusable
    /\ Len(session.trades) = 1

\* C2: a session holds at most one trade, place_order is called at most once
\* for it, and a place_order call hands at most one order to the venue client.
C2_SingleOrder ==
    /\ Len(session.trades) <= 1
    /\ orderCall.calls <= 1
    /\ orderCall.submitted <= orderCall.calls

\* the order was submitted, the venue failed it, and it was not sent again
C2_Witness ==
    /\ pc = "sealed"
    /\ orderCall.calls = 1
    /\ orderCall.submitted = 1
    /\ Len(session.trades) = 1
    /\ session.trades[1].status = "failed"

\* C3: with two or more candidates, a selection that failed or named an id
\* outside the candidates leaves the session without a trade and without a
\* place_order call, and the session seals with status error.
C3_UnusableSelectionIsError ==
    (SelectReturned /\ Len(selectCall.candidates) >= 2 /\ SelectionUnusable) =>
        /\ pc \in {"completing", "sealed"}
        /\ session.trades = <<>>
        /\ orderCall.calls = 0
        /\ pc = "sealed" => session.status = "error"

\* the oracle answered, with the id of a market that is not a candidate
C3_Witness ==
    /\ pc = "sealed"
    /\ Len(selectCall.candidates) >= 2
    /\ ~selectCall.failed
    /\ selectCall.result.selected_market_id \notin MarketIdsOf(selectCall.candidates)
    /\ session.status = "error"
    /\ session.trades = <<>>

\* C4: with exactly one actionable impact no selection request is sent to
\* the oracle, and the selection is that impact's market with confidence 1.0.
C4_SoleCandidateShortCircuit ==
    NumActionable = 1 =>
        /\ requests.select = 0
        /\ pc # "deciding" =>
              /\ selectCall.state = "chosen"
              /\ selectCall.result = [none |-> FALSE,
                                      selected_market_id |-> Candidates[1].marketId,
                                      confidence_in_selection |-> 100]

\* one actionable impact among several, and it is traded
C4_Witness ==
    /\ pc = "sealed"
    /\ NumActionable = 1
    /\ Len(session.marketImpacts) >= 2
    /\ Len(session.trades) = 1
    /\ session.trades[1].marketId = Candidates[1].marketId

\* C5: when the oracle's filter answer says not relevant (whatever ids come
\* with it) or lists no id, and so whenever the filter result does, no
\* analysis, selection or order call is made, the session holds no impact
\* and no trade, and it seals with status complete.
C5_NotRelevantSealsEmpty ==
    (/\ filterCall.state = "done"
     /\ pc # "aborted"
     /\ \/ ~filterCall.saidRelevant
        \/ ~session.filterResult.is_relevant
        \/ session.filterResult.relevant_market_ids = <<>>) =>
        /\ pc \in {"completing", "sealed"}
        /\ session.marketImpacts = <<>>
        /\ session.trades = <<>>
        /\ tasks = <<>>
        /\ requests.analyze = 0
        /\ requests.select = 0
        /\ selectCall.state = "idle"
        /\ orderCall.calls = 0
        /\ pc = "sealed" => session.status = "complete"

\* the oracle said not relevant and listed market ids all the same
C5_Witness ==
    /\ pc = "sealed"
    /\ ~filterCall.failed
    /\ ~session.filterResult.is_relevant
    /\ Len(session.filterResult.relevant_market_ids) = MaxRelevant
    /\ session.status = "complete"
    /\ session.marketImpacts = <<>>

\* C6: when the filter request fails, filter_relevant_markets returns (it
\* does not raise) is_relevant=false with no ids, and the session seals as
\* complete with no impact and no trade.
C6_FilterFailureDegrades ==
    (filterCall.state = "done" /\ filterCall.failed) =>
        /\ pc \in {"completing", "sealed"}
        /\ session.filterResult.is_relevant = FALSE
        /\ session.filterResult.relevant_market_ids = <<>>
        /\ session.marketImpacts = <<>>
        /\ session.trades = <<>>
        /\ pc = "sealed" => session.status = "complete"

C6_Witness ==
    /\ pc = "sealed"
    /\ filterCall.failed
    /\ session.filterResult.reasoning_summary = "Analysis failed"
    /\ session.status = "complete"

\* the filtering step is the second step of a session
FilteringStep == session.steps[2]

\* C7: the filtering step ends with status error exactly when the filter
\* request failed (a successful "no relevant markets" answer ends it
\* complete), and the session seals as complete either way.
C7_FilterStepTellsFailure ==
    (filterCall.state = "done" /\ pc # "aborted") =>
        /\ (FilteringStep.status = "error") <=> filterCall.failed
        /\ (pc = "sealed" /\ filterCall.failed) => session.status = "complete"

\* the analysis stage is over for a session that had relevant markets
PastAnalysis ==
    tasks # <<>> /\ pc \in {"deciding", "selecting", "selected", "completing", "sealed"}

\* C8: a failed analysis call yields the default judgment for its market
\* (NEUTRAL, impact 0, confidence 0, HOLD, no side, price 0.5, size 0); that
\* impact is not actionable, is no candidate and is not the selected impact.
C8_FailedAnalysisIsDefaultHold ==
    \A i \in 1..Len(tasks) :
        (tasks[i].state = "done" /\ tasks[i].failed /\ pc # "aborted") =>
            /\ tasks[i].result =
                  [market_id |-> tasks[i].marketId, sentiment |-> "NEUTRAL",
                   impact_score |-> 0, confidence |-> 0,
                   trade_decision |-> [action |-> "HOLD", side |-> NoSide,
                                       suggestedPrice |-> 50, sizeUsdc |-> 0]]
            /\ PastAnalysis =>
                  /\ ~IsActionable(session.marketImpacts[i])
                  /\ \A k \in 1..NumActionable :
                        Candidates[k] # session.marketImpacts[i]
                  /\ selectCall.state = "chosen" =>
                        SelectedImpact(selectCall.result, selectCall.candidates)
                            # session.marketImpacts[i]

\* one analysis failed, another market was traded
C8_Witness ==
    /\ pc = "sealed"
    /\ \E i \in 1..Len(tasks) : tasks[i].failed
    /\ Len(session.trades) = 1

C9_State ==
    \* a failed call does not end the stage for the others
    /\ (\E i \in 1..Len(tasks) : tasks[i].state = "done" /\ tasks[i].failed) =>
          pc # "aborted"
    \* the barrier: Deciding starts only when every call has settled
    /\ PastAnalysis => AllSettled(tasks)
    \* one judgment per relevant id, each the result of its own call
    /\ PastAnalysis =>
          /\ Len(session.marketImpacts) = Len(session.filterResult.relevant_market_ids)
          /\ \A i \in 1..Len(session.marketImpacts) :
                /\ tasks[i].marketId = session.filterResult.relevant_market_ids[i]
                /\ session.marketImpacts[i].marketId = tasks[i].marketId
                /\ session.marketImpacts[i].tradeDecision = tasks[i].result.trade_decision
                /\ session.marketImpacts[i].sentiment = tasks[i].result.sentiment
                /\ \/ tasks[i].failed
                   \/ tasks[i].result \in AnalysisBodies(tasks[i].marketId)

\* a settled call's slot is not touched by the return of another
C9_Step ==
    \A i \in 1..Len(tasks) :
        tasks[i].state = "done" => (Len(tasks') = Len(tasks) /\ tasks'[i] = tasks[i])

\* C9: the analysis calls are independent and joined by a barrier: a call
\* that fails is defaulted without ending the others, no call's return
\* changes another's result, Deciding does not start before all have
\* settled, and marketImpacts then holds one judgment per relevant id.
C9_FanOutBarrier == [](C9_State) /\ [][C9_Step]_vars

\* the first call failed, the second returned before it, its result stands
C9_Witness ==
    /\ pc = "deciding"
    /\ Len(tasks) = MaxRelevant
    /\ outOfOrder
    /\ tasks[1].failed
    /\ ~tasks[2].failed
    /\ IsActionable(session.marketImpacts[2])

\* C10: the market ids of marketImpacts are relevantMarketIds, in that order.
C10_ImpactOrder ==
    PastAnalysis =>
        [i \in 1..Len(session.marketImpacts) |-> session.marketImpacts[i].marketId]
            = session.filterResult.relevant_market_ids

\* a later id's call returned first; the impacts keep the order of the ids
C10_Witness ==
    /\ pc = "sealed"
    /\ outOfOrder
    /\ session.filterResult.relevant_market_ids = <<"102", "101">>
    /\ session.marketImpacts[1].marketId = "102"
    /\ session.marketImpacts[2].marketId = "101"

----------------------------------------------------------------------------
\* Order failures, sealing, and what survives a cancelled generator

\* C11: a place_order that fails (venue error code, missing token, or the
\* venue client raises) is recorded: every place_order call appends its
\* execution to the session, a failed execution carries a non-empty error,
\* and the session that holds it seals as complete.
C11_FailedOrderIsRecorded ==
    /\ orderCall.calls = Len(session.trades)
    /\ \A i \in 1..Len(session.trades) :
          session.trades[i].status = "failed" => session.trades[i].error # ""
    /\ (pc = "sealed" /\ session.trades # <<>>) => session.status = "complete"

\* the pipeline execution that owns the session can still take a step
PipelineRunning ==
    pc \in {"received", "filtering", "relevant", "analyzing", "deciding",
            "selecting", "selected", "completing"}

SelectionStageFailed ==
    SelectReturned /\ Len(selectCall.candidates) >= 2 /\ SelectionUnusable

\* C12: every session is eventually sealed with its end time set, and a
\* sealed session has status error exactly when the selection stage failed
\* with two or more actionable candidates.
C12_EventuallySealed ==
    /\ (session.status = "active") ~>
          (pc = "sealed" /\ session.endTime /\ session.status \in {"complete", "error"})
    /\ [](pc = "sealed" => (session.status = "error" <=> SelectionStageFailed))

\* C13: once the status of a session is complete or error, no step changes
\* any of its fields.
C13_SealedIsImmutable ==
    [][session.status \in {"complete", "error"} => session' = session]_vars

\* an observer was sent the sealed session: a step taken after the seal
C13_Witness ==
    /\ pc = "sealed"
    /\ session.status \in {"complete", "error"}
    /\ delivered = session.status
    /\ session.endTime

\* C14: a session that has been admitted runs on until it is sealed, also
\* when the last observer disconnects and the event generator is cancelled:
\* while the session is active its pipeline execution is alive.
C14_AdmittedRunsToSeal ==
    session.status = "active" => PipelineRunning

\* C15: every event delivered to the event handler gets a session record,
\* also when broadcasting the raw event fails.
C15_EventBecomesSession ==
    pc # "listening" => session.status # "none"

----------------------------------------------------------------------------
\* The adapters' contracts

FailedResponse(resp) == resp.kind \in FailKinds

\* C16: no adapter operation lets an exception escape; when its remote call
\* fails it returns its fallback: not relevant with no ids, the HOLD
\* default, no selection, a failed execution, the empty catalog, a zero
\* balance.
C16_AdaptersNeverRaise ==
    /\ ~adapterCall.result.raised
    /\ (adapterCall.op = "filter_relevant_markets" /\ FailedResponse(adapterCall.asked)) =>
          /\ ~adapterCall.result.value.is_relevant
          /\ adapterCall.result.value.relevant_market_ids = <<>>
    /\ (adapterCall.op = "analyze_market_impact" /\ FailedResponse(adapterCall.asked)) =>
          adapterCall.result.value.trade_decision.action = "HOLD"
    /\ (adapterCall.op = "select_best_market"
          /\ Len(adapterCall.asked.impacts) >= 2
          /\ FailedResponse(adapterCall.asked.resp)) =>
          adapterCall.result.value = NoSelection
    /\ (adapterCall.op = "place_order" /\ adapterCall.asked.venue.kind = "raise") =>
          adapterCall.result.value.status = "failed"
    /\ (adapterCall.op = "get_markets" /\ adapterCall.asked.kind \in {"raise", "noresult"}) =>
          adapterCall.result.value = <<>>
    /\ (adapterCall.op = "get_balance" /\ adapterCall.asked.kind = "raise") =>
          adapterCall.result.value.available = 0

\* the venue client raised inside get_markets and the catalog came back empty
C16_Witness ==
    /\ adapterCall.op = "get_markets"
    /\ adapterCall.asked.kind = "raise"
    /\ ~adapterCall.result.raised
    /\ adapterCall.result.value = <<>>

PriceOutOfRange(d) == d.suggestedPrice < PriceMin \/ d.suggestedPrice > PriceMax

\* C17: when the oracle's suggested price lies outside [0.01, 0.99] the
\* analysis keeps the oracle's trade decision with the price clamped into
\* the range.
C17_OutOfRangePriceClamped ==
    (/\ adapterCall.op = "analyze_market_impact"
     /\ adapterCall.asked.kind = "json"
     /\ PriceOutOfRange(adapterCall.asked.body.trade_decision)) =>
        LET said == adapterCall.asked.body.trade_decision
        IN  adapterCall.result.value.trade_decision =
                TradeDecision(said.action, said.side,
                              ClampPrice(said.suggestedPrice), said.sizeUsdc)

\* C18: every recorded execution has the fixed trade size as its amount,
\* whatever sizeUsdc the oracle proposed.
C18_FixedAmount ==
    \A i \in 1..Len(session.trades) : session.trades[i].amount = FixedTradeSize

\* the traded decision proposed another size, and the execution has the fixed one
C18_Witness ==
    /\ pc = "sealed"
    /\ Len(session.trades) = 1
    /\ selectCall.state = "chosen"
    /\ SelectedImpact(selectCall.result, selectCall.candidates).tradeDecision.sizeUsdc
          # FixedTradeSize
    /\ session.trades[1].amount = FixedTradeSize

\* C19: marketImpacts holds at most one entry per market id.
C19_OneImpactPerMarket ==
    \A i, j \in 1..Len(session.marketImpacts) :
        i # j => session.marketImpacts[i].marketId # session.marketImpacts[j].marketId

\* C20: the filter result handed to the pipeline names at most five markets.
C20_AtMostFiveIds ==
    adapterCall.op = "filter_relevant_markets" =>
        Len(adapterCall.result.value.relevant_market_ids) <= MaxFilterIds

----------------------------------------------------------------------------
\* The steps of a session

StageOrder == <<"receiving", "filtering", "analyzing", "deciding", "executing", "complete">>

StageRank(type) == CHOOSE k \in 1..Len(StageOrder) : StageOrder[k] = type

\* C21: the steps of a session are never empty, begin with the receiving
\* step, follow the stage order receiving, filtering, analyzing, deciding,
\* executing, complete with no stage twice, and a complete step is the last.
C21_StepsInStageOrder ==
    session.status # "none" =>
        /\ session.steps # <<>>
        /\ session.steps[1].type = "receiving"
        /\ \A i \in 1..Len(session.steps) : session.steps[i].type \in
              {StageOrder[k] : k \in 1..Len(StageOrder)}
        /\ \A i, j \in 1..Len(session.steps) :
              i < j => StageRank(session.steps[i].type) < StageRank(session.steps[j].type)
        /\ \A i \in 1..Len(session.steps) :
              session.steps[i].type = "complete" => i = Len(session.steps)

\* a sealed session that went through every stage
C21_Witness ==
    /\ pc = "sealed"
    /\ Len(session.steps) = 6
    /\ \A k \in 1..6 : session.steps[k].type = StageOrder[k]

StatusRank(status) ==
    IF status = "pending" THEN 0 ELSE IF status = "processing" THEN 1 ELSE 2

\* C22: steps are append-only: no step is removed or moved, a step's status
\* only moves forward along pending, processing, complete or error, and a
\* complete or error step never changes again.
C22_StepsAppendOnly ==
    [][ /\ Len(session'.steps) >= Len(session.steps)
        /\ \A i \in 1..Len(session.steps) :
              /\ session'.steps[i].type = session.steps[i].type
              /\ StatusRank(session'.steps[i].status) >= StatusRank(session.steps[i].status)
              /\ session.steps[i].status \in {"complete", "error"} =>
                    session'.steps[i] = session.steps[i] ]_vars

\* the analyzing step went from processing to complete, and later steps
\* were appended behind it
C22_Witness ==
    /\ pc = "sealed"
    /\ Len(session.steps) >= 5
    /\ session.steps[3] = Step("analyzing", "complete")
    /\ session.steps[2] = Step("filtering", "error")

AllHold ==
    \A i \in 1..Len(session.marketImpacts) :
        session.marketImpacts[i].tradeDecision.action = "HOLD"

\* C23: when every impact of a session is a HOLD (defaulted analyses
\* included), no selection request and no place_order call is made, the
\* session holds no trade, the deciding step is complete and the session
\* seals as complete.
C23_NoCandidateNoTrade ==
    (PastAnalysis /\ AllHold) =>
        /\ requests.select = 0
        /\ selectCall.state = "idle"
        /\ orderCall.calls = 0
        /\ session.trades = <<>>
        /\ pc \in {"deciding", "completing", "sealed"}
        /\ pc \in {"completing", "sealed"} =>
              /\ session.steps[4] = Step("deciding", "complete")
              /\ \A i \in 1..Len(session.steps) : session.steps[i].type # "executing"
        /\ pc = "sealed" => session.status = "complete"

\* two analyses, one answered HOLD and one defaulted, sealed without a trade
C23_Witness ==
    /\ pc = "sealed"
    /\ Len(tasks) = 2
    /\ tasks[1].failed /\ ~tasks[2].failed
    /\ AllHold
    /\ session.status = "complete"
    /\ session.trades = <<>>

\* C24: a trade of a session is on the market the selection stage chose,
\* and that market is one of the session's actionable impacts.
C24_TradeOnSelectedMarket ==
    session.trades # <<>> =>
        /\ selectCall.state = "chosen"
        /\ session.trades[1].marketId = selectCall.result.selected_market_id
        /\ \E i \in 1..Len(session.marketImpacts) :
              /\ IsActionable(session.marketImpacts[i])
              /\ session.marketImpacts[i].marketId = session.trades[1].marketId

\* two candidates, the oracle picked the second, the trade is on the second
C24_Witness ==
    /\ Len(session.trades) = 1
    /\ Len(selectCall.candidates) = 2
    /\ selectCall.candidates[1].marketId = "101"
    /\ selectCall.candidates[2].marketId = "102"
    /\ selectCall.result.selected_market_id = "102"
    /\ session.trades[1].marketId = "102"

ActivatedWithTokens(raw) ==
    /\ raw.kind = "dict"
    /\ raw.statusEnum = "Activated"
    /\ raw.yesTokenId # "" /\ raw.noTokenId # ""

\* C25: every market get_markets returns carries both trade tokens, and it
\* returns no more markets than the venue listed as activated with both
\* tokens: created, resolved and token-less markets are left out.
C25_CatalogOnlyTradeable ==
    adapterCall.op = "get_markets" =>
        LET listed == adapterCall.asked.list
            got == adapterCall.result.value
        IN  /\ \A i \in 1..Len(got) :
                  got[i].yesTokenId # NoToken /\ got[i].noTokenId # NoToken
            /\ Len(got) <= Cardinality({i \in 1..Len(listed) : ActivatedWithTokens(listed[i])})

\* the venue listed an activated market and a resolved one; one came back
C25_Witness ==
    /\ adapterCall.op = "get_markets"
    /\ Len(adapterCall.asked.list) = 2
    /\ ActivatedWithTokens(adapterCall.asked.list[1])
    /\ adapterCall.asked.list[2].statusEnum = "Resolved"
    /\ adapterCall.asked.list[2].yesTokenId # "" /\ adapterCall.asked.list[2].noTokenId # ""
    /\ Len(adapterCall.result.value) = 1

\* the last catalog read before read k whose fetch succeeded (0 if none)
LastFetched(k) ==
    IF \E j \in 1..(k - 1) : marketsSent[j].fetched
    THEN CHOOSE j \in 1..(k - 1) :
            /\ marketsSent[j].fetched
            /\ \A h \in (j + 1)..(k - 1) : ~marketsSent[h].fetched
    ELSE 0

\* C26: once a fetch has succeeded, a catalog read whose fetch fails gives
\* the markets of the last successful fetch, not the empty set.
C26_FailedRefreshKeepsCatalog ==
    \A k \in 1..Len(marketsSent) :
        (~marketsSent[k].fetched /\ LastFetched(k) # 0) =>
            marketsSent[k].markets = marketsSent[LastFetched(k)].markets

----------------------------------------------------------------------------
\* The store across events

\* C27: under any interleaving of pipelines and readers every session is in
\* the store once, the store and All() keep the order of appending, no
\* appended session is lost, and a session is written only by the pipeline
\* execution that created it.
C27_State ==
    /\ \A i \in 1..Len(store) : store[i].id = i
    /\ lastQuery.q = AllQuery => lastQuery.result.sessions = store

C27_Step ==
    /\ Len(store') >= Len(store)
    /\ \A i \in 1..Len(store) :
          /\ store'[i].id = store[i].id
          /\ store'[i].event = store[i].event
          /\ store'[i].startTime = store[i].startTime
          /\ store'[i] # store[i] =>
                LET l == store[i].owner
                IN  /\ listeners[l].phase = "running" /\ listeners[l].sess = i
                    /\ listeners'[l].phase = "idle"

C27_StoreKeepsSessions == [](C27_State) /\ [][C27_Step]_vars

\* two pipelines in flight at once, each with its session, one already
\* written to while the other was running, and a reader got both in order
C27_Witness ==
    /\ Len(store) = 2
    /\ store[1].owner # store[2].owner
    /\ store[1].status = "active"
    /\ store[2].status = "complete"
    /\ lastQuery.q = AllQuery
    /\ Len(lastQuery.result.sessions) = 2

\* C28: each event of the source yields one session, whatever observers
\* connected, configured and disconnected before: never two for one event.
C28_OneSessionPerEvent ==
    \A e \in 1..produced : Cardinality({i \in 1..Len(store) : store[i].event = e}) <= 1

\* C29: if event A arrived before event B, the session of A does not start
\* later than the session of B.
C29_StartTimeKeepsArrivalOrder ==
    \A i, j \in 1..Len(store) :
        store[i].event < store[j].event => store[i].startTime <= store[j].startTime

C34_NoOracleRetry ==
    /\ requests.filter <= 1
    /\ requests.analyze <= Len(tasks)
    /\ requests.select <= 1
    /\ (filterCall.state = "done" /\ filterCall.failed) =>
          /\ requests.filter = 1
          /\ pc # "aborted" => ~session.filterResult.is_relevant
    /\ \A i \in 1..Len(tasks) :
          (tasks[i].state = "done" /\ tasks[i].failed /\ pc # "aborted") =>
              tasks[i].result = get_default_analysis(tasks[i].marketId)
    /\ (selectCall.state = "rejected" /\ selectCall.failed) =>
          /\ requests.select = 1
          /\ selectCall.result = NoSelection

\* the selection request failed after two analyses: one request was sent for
\* it, and the session is sealed with nothing more asked
C34_Witness ==
    /\ pc = "sealed"
    /\ selectCall.failed
    /\ requests = [filter |-> 1, analyze |-> 2, select |-> 1]

\* C35: place_order called without a trade token hands nothing to the venue
\* client and returns a failed execution with error 'Missing token_id' that
\* carries the market, side, amount and price it was given.
C35_MissingTokenFails ==
    (adapterCall.op = "place_order" /\ adapterCall.asked.token_id = NoToken) =>
        /\ adapterCall.submitted = 0
        /\ ~adapterCall.result.raised
        /\ adapterCall.result.value =
              TradeExecution("101", "YES", FixedTradeSize, 60, "failed", "Missing token_id")

\* place_order was called without a token while the venue would have
\* accepted the order
C35_Witness ==
    /\ adapterCall.op = "place_order"
    /\ adapterCall.asked.token_id = NoToken
    /\ adapterCall.asked.venue.kind = "response"
    /\ adapterCall.asked.venue.hasErrno /\ adapterCall.asked.venue.errno = 0
    /\ adapterCall.result.value.status = "failed"

\* C36: with a token, place_order returns confirmed exactly when the venue
\* answered with errno 0; an answer with another errno or with none gives
\* failed with a non-empty error; pending is never returned.
C36_ConfirmedIffErrnoZero ==
    adapterCall.op = "place_order" =>
        LET venue == adapterCall.asked.venue
            trade == adapterCall.result.value
            accepted == /\ adapterCall.asked.token_id # NoToken
                        /\ venue.kind = "response"
                        /\ venue.hasErrno /\ venue.errno = 0
        IN  /\ trade.status = "confirmed" <=> accepted
            /\ (adapterCall.asked.token_id # NoToken /\ venue.kind = "response"
                  /\ ~(venue.hasErrno /\ venue.errno = 0)) =>
                  trade.status = "failed" /\ trade.error # ""
            /\ trade.status # "pending"

\* the venue answered without an errno and the order was recorded as failed
C36_Witness ==
    /\ adapterCall.op = "place_order"
    /\ adapterCall.asked.token_id # NoToken
    /\ adapterCall.asked.venue.kind = "response"
    /\ ~adapterCall.asked.venue.hasErrno
    /\ adapterCall.result.value.status = "failed"
    /\ adapterCall.result.value.error = "SDK Error"

\* C40: the judgment analyze_market_impact returns names the market that
\* was analysed, whether the oracle produced it or it is the default.
C40_JudgmentNamesAnalysedMarket ==
    adapterCall.op = "analyze_market_impact" =>
        adapterCall.result.value.market_id = adapterCall.market

\* The event source

UnknownType(msg) == msg.json = "object" /\ msg.type \notin {"connected", "ping", "tweet"}

NoTweetData(msg) ==
    /\ msg.json = "object" /\ msg.type = "tweet"
    /\ msg.text = NoText /\ msg.tweets = <<>>

BlankText(msg) ==
    /\ msg.json = "object" /\ msg.type = "tweet"
    /\ \/ msg.text = ""
       \/ /\ msg.text = NoText
          /\ \A i \in 1..Len(msg.tweets) : msg.tweets[i].dict /\ msg.tweets[i].text = ""

\* C33: a message that cannot be parsed, is of an unrecognized type, holds
\* no tweet data or only blank text never reaches on_tweet, and after it
\* the loop is still listening.
C33_MalformedIsDropped ==
    (twitter.last = "message"
       /\ \/ twitter.msg.json # "object"
          \/ UnknownType(twitter.msg)
          \/ NoTweetData(twitter.msg)
          \/ BlankText(twitter.msg)) =>
        /\ twitter.called = <<>>
        /\ twitter.listening

\* a tweets array of two blank tweets was handled and the loop goes on
C33_Witness ==
    /\ twitter.last = "message"
    /\ twitter.msg.type = "tweet"
    /\ twitter.msg.text = NoText
    /\ Len(twitter.msg.tweets) = 2
    /\ BlankText(twitter.msg)
    /\ twitter.called = <<>>
    /\ twitter.listening

C39_State == twitter.reconnect_attempts \in 0..5

C39_Step ==
    /\ (twitter'.last = "reconnect" /\ twitter' # twitter) =>
          IF twitter.reconnect_attempts < 5
          THEN /\ twitter'.reconnect_attempts = twitter.reconnect_attempts + 1
               /\ twitter'.slept = 90 * 2^(twitter'.reconnect_attempts - 1)
          ELSE /\ twitter'.reconnect_attempts = twitter.reconnect_attempts
               /\ twitter'.slept = 0
    /\ (twitter'.last = "connected" /\ twitter' # twitter) =>
          twitter'.reconnect_attempts = 0

\* C39: reconnect_attempts stays within 0..5; a _reconnect below 5 adds one
\* and sleeps 90 * 2^(attempts - 1) seconds, a _reconnect at 5 changes
\* nothing and sleeps for nothing, a successful connect resets it to 0.
C39_ReconnectBounded == [](C39_State) /\ [][C39_Step]_vars

\* the fifth failure in a row slept 1440 seconds
C39_Witness ==
    /\ twitter.last = "reconnect"
    /\ twitter.reconnect_attempts = 5
    /\ twitter.slept = 1440

\* Demo mode

\* C37: at most one demo generator task is not done at any time (so at most
\* one is live).
C37_OneDemoTask ==
    Cardinality({i \in 1..Len(demo.tasks) : demo.tasks[i] # "done"}) <= 1

\* a second generator runs after the first was cancelled and ended, with
\* two observers connected
C37_Witness ==
    /\ Len(demo.tasks) = 2
    /\ demo.tasks[1] = "done"
    /\ demo.tasks[2] = "running"
    /\ demo.observers = 2

\* C38: once configure was handled and the last observer has not left
\* since, a generator task is running.
C38_ConfiguredKeepsGenerating ==
    demo.configured => \E i \in 1..Len(demo.tasks) : demo.tasks[i] = "running"

\* The history queries in full

IsSubstring(needle, text) ==
    \E i \in 0..(Len(text) - Len(needle)) : SubSeq(text, i + 1, i + Len(needle)) = needle

\* the session satisfies every predicate the filter supplies
Satisfies(s, f) ==
    /\ s.status \in f.statuses
    /\ s.startTime >= f.since
    /\ f.until # Omitted => s.startTime <= f.until[1]
    /\ f.marketCategory # Omitted =>
          \E i \in 1..Len(s.impacts) : s.impacts[i].category \in f.marketCategory[1]
    /\ f.author # Omitted => IsSubstring(f.author[1], s.author)
    /\ f.tweetText # Omitted => IsSubstring(f.tweetText[1], s.text)
    /\ f.minTrades # Omitted => Len(s.trades) >= f.minTrades[1]
    /\ f.maxTrades # Omitted => Len(s.trades) <= f.maxTrades[1]
    /\ f.minConfidence # Omitted =>
          \E i \in 1..Len(s.impacts) : s.impacts[i].confidence >= f.minConfidence[1]

EmptyFilter ==
    [kind |-> "filter", statuses |-> SessionStatuses, since |-> 0, until |-> Omitted,
     marketCategory |-> Omitted, author |-> Omitted, tweetText |-> Omitted,
     minTrades |-> Omitted, maxTrades |-> Omitted, minConfidence |-> Omitted]

\* C31: a filter returns exactly the sessions that satisfy every predicate
\* it supplies, in the order of the store; the filter that supplies none
\* returns the whole store.
C31_FilterIsExact ==
    lastQuery.q.kind = "filter" =>
        LET f == lastQuery.q
            got == lastQuery.result.sessions
            kept == {i \in 1..Len(store) : Satisfies(store[i], f)}
        IN  /\ Len(got) = Cardinality(kept)
            /\ \A k \in 1..Len(got) :
                  got[k] = store[CHOOSE i \in kept :
                                    Cardinality({j \in kept : j < i}) = k - 1]
            /\ f = EmptyFilter => got = store

\* a filter by author substring and trade count kept the second of two
\* sessions and left out the first
C31_Witness ==
    /\ lastQuery.q.kind = "filter"
    /\ lastQuery.q.author = Given(<<"b">>)
    /\ lastQuery.q.maxTrades = Given(0)
    /\ Len(store) = 2
    /\ Len(lastQuery.result.sessions) = 1
    /\ lastQuery.result.sessions[1].id = 2

TradesWith(status) ==
    {p \in (1..Len(store)) \X (1..2) :
        /\ p[2] <= Len(store[p[1]].trades)
        /\ store[p[1]].trades[p[2]] = status}

\* C32: the analytics' completed, errored and active counts add up to the
\* total, successfulTrades and failedTrades are the confirmed and the failed
\* trades of all sessions, and successRate is successfulTrades / totalTrades,
\* 0 when there is no trade.
C32_AnalyticsCounts ==
    lastQuery.q.kind = "analytics" =>
        LET a == lastQuery.result.counts
        IN  /\ a.totalSessions = Len(store)
            /\ a.completedSessions + a.erroredSessions + a.activeSessions = a.totalSessions
            /\ a.successfulTrades = Cardinality(TradesWith("confirmed"))
            /\ a.failedTrades = Cardinality(TradesWith("failed"))
            /\ a.totalTrades = 0 => a.successRate = 0
            /\ a.totalTrades > 0 =>
                  a.successRate = (a.successfulTrades * 100) \div a.totalTrades

\* the analytics over a confirmed and a failed trade: half succeeded
C32_Witness ==
    /\ lastQuery.q.kind = "analytics"
    /\ lastQuery.result.counts.totalTrades = 2
    /\ lastQuery.result.counts.successfulTrades = 1
    /\ lastQuery.result.counts.failedTrades = 1
    /\ lastQuery.result.counts.successRate = 50

====
